---- MODULE Spec2Model ----
(***************************************************************************)
(* Class Navigator: the document pipeline (create / upload / process /     *)
(* delete / semantic search) and the chat send-message handler, modelled   *)
(* over the relational store the routes share.                             *)
(*                                                                         *)
(* Strings are sequences of tokens; a token is a piece of text cut at the  *)
(* boundaries of every pattern the code searches for with includes(), so   *)
(* includes(pattern) is "pattern occurs as a contiguous run of tokens".    *)
(* null and "" are both the empty sequence: every test the code makes on   *)
(* content (content || "", content ? a : b, content && ...) treats them    *)
(* alike.                                                                  *)
(***************************************************************************)
EXTENDS Integers, Sequences, FiniteSets, TLC

VARIABLES
    documents,    \* Document table: id -> row, or NoDoc
    vectorStore,  \* VectorStore table, in insertion order
    nextDocId,    \* ids handed out by document.create
    runs,         \* processDocument invocations in flight, with their caller
    deleting,     \* DELETE /api/documents/[id] requests between their two statements
    search,       \* the semanticSearch call in flight
    requests,     \* HTTP requests issued so far
    chat,         \* the Chat row the send-message requests address
    messages,     \* Message table of that chat, in createdAt order
    sends,        \* POST /api/chat/[id] requests in flight
    call,         \* a call of a pure function on its own: its arguments and result
    db,           \* the relational store as the API routes see it, table by table
    api,          \* the HTTP request being answered, or the last one answered, and its response
    assistant     \* lib/assistantService: tracked threads, their runs, the call in flight

docVars == <<documents, vectorStore, nextDocId, runs, deleting, search, requests>>
chatVars == <<chat, messages, sends>>
apiVars == <<db, api>>
vars == <<documents, vectorStore, nextDocId, runs, deleting, search, requests,
          chat, messages, sends, call, db, api, assistant>>

-----------------------------------------------------------------------------
(* Bounds of the model *)

MaxDocs == 1
MaxRequests == 2
MaxInitMessages == 10
MaxSends == 2
MaxTextLen == 3
MaxRows == 3
MaxDim == 2
MaxWrites == 1
MaxThreads == 2

-----------------------------------------------------------------------------
(* Text *)

Includes(text, pat) ==
    \E i \in 0..(Len(text) - Len(pat)) : SubSeq(text, i + 1, i + Len(pat)) = pat

NoDoc == [absent |-> TRUE]
Courses == {"c1", "c2"}

\* contents a client can post
HelloWorld == <<"hello", " world">>
LongText == <<"alpha", " beta", " gamma", " delta", " epsilon">>
BracketedPlaceholder == <<"[", "Content of", " doc ", "would be processed", " here", "]">>
BarePlaceholder == <<"Content of", " doc ", "would be processed", " here">>
PageText == <<"page", " text">>
PdfText == <<"pdf", " text">>
RefusalText == <<"I ", "cannot directly extract text", ", please ", "upload the file again">>
BracketErrorText == <<"see ", "[", "1", "]", " on ", "Error", " bounds">>
UploadPlaceholder == <<"[", "PDF content being processed with OpenAI Assistant API", "]">>
ReprocessNotice ==
    <<"Because of the new implementation with openai assistant, this text cannot be directly extracted from the uploaded PDF document. Please try reprocessing this document for improved extraction.">>
ChunkerError ==
    <<"Cannot process placeholder or error text. Please ensure actual content is available.">>
ExtractionFailed == <<"PDF text extraction failed. No text content was extracted.">>
NoSourceError == <<"Cannot process PDF document. No content or buffer available.">>
RecordNotFound == <<"Record to update not found.">>
DownloadError == <<"Request failed with status code 404">>
RunNotCompleted == <<"Assistant processing timed out or failed with status: ">>
NoExtractedText == <<"Assistant did not return any extracted text">>
FullyProcessedMarker ==
    <<"\n\n", "[", "PROCESSING", " ERROR: Document could not be fully processed", "]">>
NotProcessedMarker ==
    <<"[", "PROCESSING", " ERROR: Document could not be processed", "]">>

-----------------------------------------------------------------------------
(* External collaborators: what a fetch, a download and the assistant run  *)
(* can answer.                                                             *)

AssistantOutcomes ==
    { [status |-> "completed", text |-> PdfText],
      [status |-> "completed", text |-> <<>>],
      [status |-> "completed", text |-> RefusalText],
      [status |-> "completed", text |-> BracketErrorText],
      [status |-> "failed", text |-> <<>>],
      [status |-> "in_progress", text |-> <<>>] }

Worlds == [fetchOk : BOOLEAN, assistant : AssistantOutcomes]


\* the embeddings API, as a fixed function of the text it is given
EmbedQuery(text) ==
    IF text # <<>> /\ Head(text) \in {"hello", "alpha", " beta"} THEN <<1, 0>> ELSE <<0, 1>>

-----------------------------------------------------------------------------
(* lib/assistantService.ts and lib/documentProcessor.ts                    *)

Ok(text) == [threw |-> FALSE, text |-> text]
Threw(msg) == [threw |-> TRUE, text |-> msg]

\* the run-status loop has ended with `status`; the assistant messages hold `text`
ProcessPdfWithAssistant(outcome) ==
    IF outcome.status # "completed" THEN Threw(RunNotCompleted \o <<outcome.status>>)
    ELSE IF outcome.text = <<>> THEN Threw(NoExtractedText)
    ELSE Ok(outcome.text)

ErrorMarker(msg) == <<"[", "Error", " processing PDF", ": ">> \o msg \o <<"]">>

LooksProcessed(content) ==
    /\ content # <<>>
    /\ ~ ( /\ Includes(content, <<"[">>)
           /\ Includes(content, <<"]">>)
           /\ (Includes(content, <<"PROCESSING">>) \/ Includes(content, <<"Error">>)) )

\* the pdf case without its content branch
PdfExtractionWithoutContent(document, world) ==
    LET extracted == ProcessPdfWithAssistant(world.assistant)
    IN  IF ~document.buffer /\ ~document.url THEN [kind |-> "throw", text |-> NoSourceError]
        ELSE IF extracted.threw THEN [kind |-> "throw", text |-> extracted.text]
        ELSE [kind |-> "store", text |-> extracted.text]

\* the try block of the pdf case up to the document.update: what it returns
\* early ("return"), throws ("throw") or is about to store ("store")
PdfExtraction(document, world) ==
    LET source ==
            IF document.buffer THEN Ok(<<>>)
            ELSE IF document.url THEN (IF world.fetchOk THEN Ok(<<>>) ELSE Threw(DownloadError))
            ELSE IF LooksProcessed(document.content) THEN [threw |-> FALSE, text |-> document.content, early |-> TRUE]
            ELSE Threw(NoSourceError)
        extracted == ProcessPdfWithAssistant(world.assistant)
    IN  IF source.threw THEN [kind |-> "throw", text |-> source.text]
        ELSE IF "early" \in DOMAIN source THEN [kind |-> "return", text |-> source.text]
        ELSE IF extracted.threw THEN [kind |-> "throw", text |-> extracted.text]
        ELSE IF \/ extracted.text = <<>>
                \/ /\ Includes(extracted.text, <<"[">>)
                   /\ Includes(extracted.text, <<"]">>)
                   /\ Includes(extracted.text, <<"Error">>)
             THEN [kind |-> "throw", text |-> ExtractionFailed]
        ELSE IF /\ Includes(extracted.text, <<"cannot directly extract text">>)
                /\ Includes(extracted.text, <<"upload the file again">>)
             THEN [kind |-> "store", text |-> ReprocessNotice]
        ELSE [kind |-> "store", text |-> extracted.text]

ExtractTextFromUrl(world) == IF world.fetchOk THEN PageText ELSE <<>>

\* extractText: [text, store]; text = <<>> is the falsy result (null or ""),
\* store says the pdf case wrote the text to document.content. docExists is
\* whether the Document row is there when the pdf case updates it.
ExtractText(document, world, docExists) ==
    CASE document.type = "text" -> [text |-> document.content, store |-> FALSE]
      [] document.type = "url" ->
            [text |-> IF document.url THEN ExtractTextFromUrl(world) ELSE <<>>, store |-> FALSE]
      [] document.type = "pdf" ->
            LET e == PdfExtraction(document, world)
            IN  CASE e.kind = "return" -> [text |-> e.text, store |-> FALSE]
                  [] e.kind = "throw" -> [text |-> ErrorMarker(e.text), store |-> FALSE]
                  [] e.kind = "store" ->
                        IF docExists THEN [text |-> e.text, store |-> TRUE]
                        ELSE [text |-> ErrorMarker(RecordNotFound), store |-> FALSE]
      [] OTHER -> [text |-> <<>>, store |-> FALSE]

\* the check without its "Error processing PDF" marker
IsPlaceholderTextThreeMarkers(text) ==
    /\ Includes(text, <<"[">>)
    /\ Includes(text, <<"]">>)
    /\ \/ Includes(text, <<"PDF Content from">>)
       \/ Includes(text, <<"would be processed">>)
       \/ Includes(text, <<"Failed to download">>)

IsPlaceholderText(text) ==
    /\ Includes(text, <<"[">>)
    /\ Includes(text, <<"]">>)
    /\ \/ Includes(text, <<"PDF Content from">>)
       \/ Includes(text, <<"would be processed">>)
       \/ Includes(text, <<"Failed to download">>)
       \/ Includes(text, <<"Error", " processing PDF">>)

\* RecursiveCharacterTextSplitter, with lengths counted in tokens
ChunkSize == 3
ChunkOverlap == 1

SplitText(text) ==
    LET step == ChunkSize - ChunkOverlap
        n == IF Len(text) <= ChunkSize THEN (IF text = <<>> THEN 0 ELSE 1)
             ELSE 1 + ((Len(text) - ChunkSize + step - 1) \div step)
    IN  [k \in 1..n |->
            SubSeq(text, (k - 1) * step + 1,
                   IF (k - 1) * step + ChunkSize < Len(text)
                   THEN (k - 1) * step + ChunkSize ELSE Len(text))]

\* splitIntoChunks without the placeholder check
SplitWithoutCheck(text) == [threw |-> FALSE, chunks |-> SplitText(text)]

SplitIntoChunks(text) ==
    IF IsPlaceholderText(text) THEN [threw |-> TRUE, chunks |-> <<>>]
    ELSE [threw |-> FALSE, chunks |-> SplitText(text)]


\* JSON.stringify / JSON.parse of a number array, as JSON text tokens
RECURSIVE JsonElements(_)
JsonElements(vec) ==
    IF vec = <<>> THEN <<>>
    ELSE IF Len(vec) = 1 THEN <<ToString(Head(vec))>>
    ELSE <<ToString(Head(vec)), ",">> \o JsonElements(Tail(vec))

JsonStringify(vec) == <<"[">> \o JsonElements(vec) \o <<"]">>

JsonNumber(tok) == CHOOSE v \in -9..9 : ToString(v) = tok

JsonParse(json) == [k \in 1..((Len(json) - 1) \div 2) |-> JsonNumber(json[2 * k])]

-----------------------------------------------------------------------------
(* lib/semanticSearch.ts                                                   *)

RECURSIVE Dot(_, _)
Dot(a, b) == IF a = <<>> THEN 0 ELSE Head(a) * Head(b) + Dot(Tail(a), Tail(b))

\* Math.sqrt, rounded down: lo * lo <= n < hi * hi
RECURSIVE SqrtBetween(_, _, _)
SqrtBetween(n, lo, hi) ==
    IF hi - lo <= 1 THEN lo
    ELSE LET mid == (lo + hi) \div 2
         IN  IF mid * mid <= n THEN SqrtBetween(n, mid, hi) ELSE SqrtBetween(n, lo, mid)

ISqrt(n) == SqrtBetween(n, 0, IF n < 46340 THEN n + 1 ELSE 46340)

\* the cosine computed over the common prefix of the two vectors
CosineOverCommonPrefix(vecA, vecB) ==
    LET n == IF Len(vecA) < Len(vecB) THEN Len(vecA) ELSE Len(vecB)
        a == SubSeq(vecA, 1, n)
        b == SubSeq(vecB, 1, n)
        dotProduct == Dot(a, b)
    IN  IF ISqrt(Dot(a, a)) = 0 \/ ISqrt(Dot(b, b)) = 0 THEN 0
        ELSE (IF dotProduct < 0 THEN -1 ELSE 1)
             * ISqrt((dotProduct * dotProduct * 1000000) \div (Dot(a, a) * Dot(b, b)))

\* similarity in thousandths, rounded towards zero:
\* dotProduct / (magnitudeA * magnitudeB) with the magnitudes the square roots
\* of squareA and squareB
CalculateCosineSimilarity(vecA, vecB) ==
    IF Len(vecA) # Len(vecB) THEN 0
    ELSE LET dotProduct == Dot(vecA, vecB)
             squareA == Dot(vecA, vecA)
             squareB == Dot(vecB, vecB)
         IN  IF ISqrt(squareA) = 0 \/ ISqrt(squareB) = 0 THEN 0
             ELSE (IF dotProduct < 0 THEN -1 ELSE 1)
                  * ISqrt((dotProduct * dotProduct * 1000000) \div (squareA * squareB))

\* Array.prototype.sort((a, b) => b.similarity - a.similarity): stable, descending
RECURSIVE InsertBySimilarity(_, _)
InsertBySimilarity(sorted, x) ==
    IF sorted = <<>> THEN <<x>>
    ELSE IF x.similarity > Head(sorted).similarity THEN <<x>> \o sorted
    ELSE <<Head(sorted)>> \o InsertBySimilarity(Tail(sorted), x)

\* the rows in the order the query returned them
KeepInsertionOrder(xs) == xs

RECURSIVE SortBySimilarity(_)
SortBySimilarity(xs) ==
    IF xs = <<>> THEN <<>>
    ELSE InsertBySimilarity(SortBySimilarity(SubSeq(xs, 1, Len(xs) - 1)), xs[Len(xs)])

SearchLimit == 5

Exists(docs, id) == docs[id] # NoDoc

\* the lookup without its processed filter
AllDocumentIds(docs, courseId) ==
    {id \in DOMAIN docs : Exists(docs, id) /\ docs[id].courseId = courseId}

\* the lookup without its course filter
ProcessedDocumentIdsOfAnyCourse(docs, courseId) ==
    {id \in DOMAIN docs : Exists(docs, id) /\ docs[id].processed}

\* document.findMany({where: {courseId, processed: true}}).map(doc => doc.id)
ProcessedDocumentIds(docs, courseId) ==
    {id \in DOMAIN docs : Exists(docs, id) /\ docs[id].courseId = courseId /\ docs[id].processed}

\* vectorStore.findMany({where: {documentId: {in: documentIds}}})
VectorsOf(rows, documentIds) == SelectSeq(rows, LAMBDA v : v.documentId \in documentIds)

RankedResults(documentVectors, queryEmbedding, limit) ==
    LET similarities ==
            [k \in 1..Len(documentVectors) |->
                [documentId |-> documentVectors[k].documentId,
                 chunk |-> documentVectors[k].chunk,
                 similarity |-> CalculateCosineSimilarity(
                                    queryEmbedding, JsonParse(documentVectors[k].embedding))]]
        sorted == SortBySimilarity(similarities)
    IN  SubSeq(sorted, 1, IF Len(sorted) < limit THEN Len(sorted) ELSE limit)

-----------------------------------------------------------------------------
(* The document routes                                                      *)

DocIds == 1..MaxDocs

\* JSON bodies of POST /api/courses/[id]/documents
DocumentBodies ==
    { [type |-> "text", content |-> LongText, url |-> FALSE],
      [type |-> "text", content |-> BracketedPlaceholder, url |-> FALSE],
      [type |-> "text", content |-> <<>>, url |-> FALSE],
      [type |-> "url", content |-> <<>>, url |-> TRUE],
      [type |-> "url", content |-> <<>>, url |-> FALSE],
      [type |-> "pdf", content |-> <<>>, url |-> TRUE] }

\* the 400 answers of the route: a url document without url, a text document
\* without content
ValidBody(body) ==
    /\ ~(body.type = "url" /\ ~body.url)
    /\ ~(body.type = "text" /\ body.content = <<>>)

\* the object handed to processDocument
Snapshot(id, row, buffer) ==
    [id |-> id, type |-> row.type, content |-> row.content, url |-> row.url, buffer |-> buffer]

\* a run the route has awaited to its end before it answers
NewRunAwaited(document, origin) ==
    [document |-> document, origin |-> origin, pc |-> "returned",
     chunks |-> <<>>, outcomes |-> <<>>, error |-> <<>>]

NewRun(document, origin) ==
    [document |-> document, origin |-> origin, pc |-> "start",
     chunks |-> <<>>, outcomes |-> <<>>, error |-> <<>>]

\* one timer task per document, and one POST /process call per document at a time
RunIds == DocIds \X {"task", "process"}
NoRun == [pc |-> "none"]
Live(r) == runs[r] # NoRun

\* POST /api/courses/[id]/documents
CreateDocument(courseId, body) ==
    /\ requests < MaxRequests
    /\ requests' = requests + 1
    /\ nextDocId <= MaxDocs
    /\ ValidBody(body)
    /\ LET id == nextDocId
           row == [type |-> body.type, content |-> body.content, url |-> body.url,
                   processed |-> FALSE, courseId |-> courseId,
                   route |-> "create", task |-> "pending"]
       IN  /\ documents' = [documents EXCEPT ![id] = row]
           /\ nextDocId' = nextDocId + 1
           /\ runs' = [runs EXCEPT ![<<id, "task">>] = NewRun(Snapshot(id, row, FALSE), "create")]
    /\ UNCHANGED <<chatVars, apiVars, assistant, call, vectorStore, deleting, search>>

\* POST /api/courses/[id]/upload with a non-empty PDF file and a title
UploadPdf(courseId) ==
    /\ requests < MaxRequests
    /\ requests' = requests + 1
    /\ nextDocId <= MaxDocs
    /\ LET id == nextDocId
           row == [type |-> "pdf", content |-> UploadPlaceholder, url |-> FALSE,
                   processed |-> FALSE, courseId |-> courseId,
                   route |-> "upload", task |-> "pending"]
       IN  /\ documents' = [documents EXCEPT ![id] = row]
           /\ nextDocId' = nextDocId + 1
           /\ runs' = [runs EXCEPT ![<<id, "task">>] = NewRun(Snapshot(id, row, TRUE), "upload")]
    /\ UNCHANGED <<chatVars, apiVars, assistant, call, vectorStore, deleting, search>>

\* a process route that clears the rows of the document before it runs
ProcessRouteDeletingRows(id) ==
    /\ requests < MaxRequests
    /\ requests' = requests + 1
    /\ Exists(documents, id)
    /\ ~Live(<<id, "process">>)
    /\ IF documents[id].processed
       THEN UNCHANGED <<runs, vectorStore>>
       ELSE /\ runs' = [runs EXCEPT ![<<id, "process">>] =
                            NewRun(Snapshot(id, documents[id], FALSE), "process")]
            /\ vectorStore' = SelectSeq(vectorStore, LAMBDA v : v.documentId # id)
    /\ UNCHANGED <<chatVars, apiVars, assistant, call, documents, nextDocId, deleting, search>>

\* POST /api/documents/[id]/process, up to the call of processDocument
ProcessRoute(id) ==
    /\ requests < MaxRequests
    /\ requests' = requests + 1
    /\ Exists(documents, id)
    /\ ~Live(<<id, "process">>)
    /\ IF documents[id].processed
       THEN UNCHANGED runs
       ELSE runs' = [runs EXCEPT ![<<id, "process">>] =
                        NewRun(Snapshot(id, documents[id], FALSE), "process")]
    /\ UNCHANGED <<chatVars, apiVars, assistant, call, documents, vectorStore, nextDocId, deleting, search>>

\* processDocument, steps 1 and 2: extractText, then splitIntoChunks
Extract(r, world) ==
    /\ Live(r) /\ runs[r].pc = "start"
    /\ LET run == runs[r]
           id == run.document.id
           e == ExtractText(run.document, world, Exists(documents, id))
           split == SplitIntoChunks(e.text)
       IN  /\ documents' = IF e.store THEN [documents EXCEPT ![id].content = e.text]
                           ELSE documents
           /\ runs' = [runs EXCEPT ![r] =
                 IF e.text = <<>> THEN [run EXCEPT !.pc = "returned"]
                 ELSE IF split.threw THEN [run EXCEPT !.pc = "threw", !.error = ChunkerError]
                 ELSE [run EXCEPT !.chunks = split.chunks,
                                  !.pc = IF split.chunks = <<>> THEN "mark" ELSE "embed"]]
    /\ UNCHANGED <<chatVars, apiVars, assistant, call, vectorStore, nextDocId, deleting, search, requests>>

\* a VectorStore table without the foreign key
CanReferenceAnything(docs, id) == TRUE

\* the foreign key VectorStore.documentId -> Document.id
CanReference(docs, id) == Exists(docs, id)

\* a loop whose catch rethrows
AbortOnFailedChunk(run, created) ==
    IF ~created THEN "threw"
    ELSE IF Len(run.outcomes) + 1 = Len(run.chunks) THEN "mark" ELSE "embed"

\* where the loop goes after the try/catch round a chunk: a failed chunk is
\* logged and the loop goes on
AfterChunk(run, created) ==
    IF Len(run.outcomes) + 1 = Len(run.chunks) THEN "mark" ELSE "embed"

\* processDocument, step 4: one iteration of the loop over the chunks
EmbedChunk(r, embedded) ==
    /\ Live(r) /\ runs[r].pc = "embed"
    /\ LET run == runs[r]
           id == run.document.id
           chunk == run.chunks[Len(run.outcomes) + 1]
           created == embedded /\ CanReference(documents, id)
       IN  /\ vectorStore' =
                 IF created
                 THEN Append(vectorStore, [documentId |-> id, chunk |-> chunk,
                                           embedding |-> JsonStringify(EmbedQuery(chunk))])
                 ELSE vectorStore
           /\ runs' = [runs EXCEPT ![r] =
                 [run EXCEPT !.outcomes = Append(run.outcomes, created),
                             !.pc = AfterChunk(run, created)]]
    /\ UNCHANGED <<chatVars, apiVars, assistant, call, documents, nextDocId, deleting, search, requests>>

\* processDocument: document.update({data: {processed: true}})
MarkProcessed(r) ==
    /\ Live(r) /\ runs[r].pc = "mark"
    /\ LET id == runs[r].document.id
       IN  IF Exists(documents, id)
           THEN /\ documents' = [documents EXCEPT ![id].processed = TRUE]
                /\ runs' = [runs EXCEPT ![r].pc = "returned"]
           ELSE /\ runs' = [runs EXCEPT ![r].pc = "threw", ![r].error = RecordNotFound]
                /\ UNCHANGED documents
    /\ UNCHANGED <<chatVars, apiVars, assistant, call, vectorStore, nextDocId, deleting, search, requests>>

\* what the create route's timer task writes after processDocument
CreateTaskUpdate(run) ==
    IF run.pc = "returned"
    THEN [processed |-> TRUE, content |-> "keep"]
    ELSE [processed |-> FALSE,
          content |-> IF run.document.content # <<>>
                      THEN run.document.content \o FullyProcessedMarker
                      ELSE NotProcessedMarker]

UploadErrorContent(errorMessage) ==
    IF Includes(errorMessage, <<"worker">>) \/ Includes(errorMessage, <<"GlobalWorkerOptions">>)
    THEN <<"PDF processing encountered a configuration issue with the PDF.js library. The system administrator has been notified and is working to fix this issue.">>
    ELSE IF Includes(errorMessage, <<"rate limit">>) \/ Includes(errorMessage, <<"quota">>)
    THEN <<"PDF processing has been rate-limited by our AI provider. Please try again later.">>
    ELSE IF Includes(errorMessage, <<"format">>) \/ Includes(errorMessage, <<"invalid">>)
    THEN <<"The PDF file appears to be corrupted or in an unsupported format. Please check the file and try uploading again.">>
    ELSE <<"[", "PROCESSING", " ERROR: ">> \o errorMessage \o <<"]">>

\* the upload task writing the create route's error status
UploadTaskUpdateUnprocessed(run) ==
    IF run.pc = "returned"
    THEN [processed |-> TRUE, content |-> "keep"]
    ELSE [processed |-> FALSE, content |-> UploadErrorContent(run.error)]

\* what the upload route's timer task writes after processDocument
UploadTaskUpdate(run) ==
    IF run.pc = "returned"
    THEN [processed |-> TRUE, content |-> "keep"]
    ELSE [processed |-> TRUE, content |-> UploadErrorContent(run.error)]

\* task records how processDocument ended for the document's timer task
ApplyUpdate(row, update, ended) ==
    [row EXCEPT !.processed = update.processed,
                !.content = IF update.content = "keep" THEN row.content ELSE update.content,
                !.task = ended]

\* the rest of a timer task, after processDocument has returned or thrown;
\* an update of a deleted row throws and the task ends
FinishTask(r) ==
    /\ Live(r) /\ runs[r].pc \in {"returned", "threw"}
    /\ runs[r].origin \in {"create", "upload"}
    /\ LET run == runs[r]
           id == run.document.id
           update == IF run.origin = "create" THEN CreateTaskUpdate(run) ELSE UploadTaskUpdate(run)
       IN  documents' = IF Exists(documents, id)
                        THEN [documents EXCEPT ![id] = ApplyUpdate(documents[id], update, run.pc)]
                        ELSE documents
    /\ runs' = [runs EXCEPT ![r] = NoRun]
    /\ UNCHANGED <<chatVars, apiVars, assistant, call, vectorStore, nextDocId, deleting, search, requests>>

\* POST /api/documents/[id]/process answers: 200 after a return, 500 after a throw
ProcessRespond(r) ==
    /\ Live(r) /\ runs[r].pc \in {"returned", "threw"}
    /\ runs[r].origin = "process"
    /\ runs' = [runs EXCEPT ![r] = NoRun]
    /\ UNCHANGED <<chatVars, apiVars, assistant, call, documents, vectorStore, nextDocId, deleting, search, requests>>

\* DELETE /api/documents/[id]: vectorStore.deleteMany
DeleteVectors(id) ==
    /\ requests < MaxRequests
    /\ requests' = requests + 1
    /\ Exists(documents, id) /\ id \notin deleting
    /\ vectorStore' = SelectSeq(vectorStore, LAMBDA v : v.documentId # id)
    /\ deleting' = deleting \cup {id}
    /\ UNCHANGED <<chatVars, apiVars, assistant, call, documents, nextDocId, runs, search>>

\* onDelete: Cascade on VectorStore.document
CascadeDelete(rows, id) == SelectSeq(rows, LAMBDA v : v.documentId # id)

\* DELETE /api/documents/[id]: document.delete, then the 200 response
DeleteDocument(id) ==
    /\ id \in deleting
    /\ deleting' = deleting \ {id}
    /\ documents' = [documents EXCEPT ![id] = NoDoc]
    /\ vectorStore' = CascadeDelete(vectorStore, id)
    /\ UNCHANGED <<chatVars, apiVars, assistant, call, nextDocId, runs, search, requests>>

Queries == {LongText}
Idle == [pc |-> "idle"]

\* semanticSearch up to the embedding of the query
SearchDocuments(courseId, query, limit, embedded) ==
    /\ requests < MaxRequests
    /\ requests' = requests + 1
    /\ search.pc = "idle"
    /\ LET documentIds == ProcessedDocumentIds(documents, courseId)
       IN  search' =
             IF documentIds = {} \/ ~embedded
             THEN [pc |-> "done", courseId |-> courseId, documentIds |-> documentIds,
                   query |-> query, limit |-> limit, results |-> <<>>]
             ELSE [pc |-> "vectors", courseId |-> courseId, documentIds |-> documentIds,
                   query |-> query, limit |-> limit, results |-> <<>>]
    /\ UNCHANGED <<chatVars, apiVars, assistant, call, documents, vectorStore, nextDocId, runs, deleting>>

\* semanticSearch from vectorStore.findMany to the return
SearchVectors ==
    /\ search.pc = "vectors"
    /\ search' = [search EXCEPT
            !.pc = "done",
            !.results = RankedResults(VectorsOf(vectorStore, search.documentIds),
                                      EmbedQuery(search.query), search.limit)]
    /\ UNCHANGED <<chatVars, apiVars, assistant, call, documents, vectorStore, nextDocId, runs, deleting, requests>>

\* the caller takes the result
SearchReturn ==
    /\ search.pc = "done"
    /\ search' = Idle
    /\ UNCHANGED <<chatVars, apiVars, assistant, call, documents, vectorStore, nextDocId, runs, deleting, requests>>

DocInit ==
    /\ documents = [id \in DocIds |-> NoDoc]
    /\ vectorStore = <<>>
    /\ nextDocId = 1
    /\ runs = [r \in RunIds |-> NoRun]
    /\ deleting = {}
    /\ search = Idle
    /\ requests = 0

\* no chat exists
ChatIdle ==
    /\ chat = [exists |-> FALSE]
    /\ messages = <<>>
    /\ sends = <<>>

NoCall == [pc |-> "none"]

\* no API request answered, no assistant call made
ApiIdle ==
    /\ db = [exists |-> FALSE]
    /\ api = [route |-> "none"]
    /\ assistant = [pc |-> "none"]

Init == DocInit /\ ChatIdle /\ ApiIdle /\ call = NoCall

Next ==
    \/ \E c \in Courses, body \in DocumentBodies : CreateDocument(c, body)
    \/ \E c \in Courses : UploadPdf(c)
    \/ \E id \in DocIds : ProcessRoute(id)
    \/ \E r \in RunIds, world \in Worlds : Extract(r, world)
    \/ \E r \in RunIds, embedded \in BOOLEAN : EmbedChunk(r, embedded)
    \/ \E r \in RunIds : MarkProcessed(r)
    \/ \E r \in RunIds : FinishTask(r)
    \/ \E r \in RunIds : ProcessRespond(r)
    \/ \E id \in DocIds : DeleteVectors(id)
    \/ \E id \in DocIds : DeleteDocument(id)
    \/ \E c \in Courses, q \in Queries, embedded \in BOOLEAN :
          SearchDocuments(c, q, SearchLimit, embedded)
    \/ SearchVectors
    \/ SearchReturn

Spec == Init /\ [][Next]_vars

-----------------------------------------------------------------------------
(* splitIntoChunks on its own: one call on any text over the tokens its     *)
(* check looks for                                                          *)

Tokens ==
    {"[", "]", "Content of", "would be processed", " here", "Error", " processing PDF",
     "PDF Content from", "Failed to download", "word"}

Texts == UNION {[1..n -> Tokens] : n \in 0..MaxTextLen}

SplitCall ==
    /\ call.pc = "called"
    /\ LET result == SplitIntoChunks(call.text)
       IN  call' = [pc |-> IF result.threw THEN "threw" ELSE "returned",
                    text |-> call.text, chunks |-> result.chunks]
    /\ UNCHANGED <<docVars, chatVars, apiVars, assistant>>

TextInit ==
    /\ DocInit
    /\ ChatIdle
    /\ ApiIdle
    /\ \E text \in Texts : call = [pc |-> "called", text |-> text, chunks |-> <<>>]

TextNext == SplitCall

TextSpec == TextInit /\ [][TextNext]_vars

-----------------------------------------------------------------------------
(* POST /api/chat/[id]: the send-message handler, one step per stretch     *)
(* between the awaits that touch the Chat and Message tables               *)

HistoryTake == 10

SendIds == 1..MaxSends
Question == <<"alpha", " question">>
Answer == <<"the answer ", "[", "1", "]", " in short">>
GeneratedTitle == <<"Generated title">>
NewChatTitle == <<"New Chat">>
Apology ==
    <<"I'm sorry, I encountered an error while processing your request. Please try again later.">>
SystemPreamble == <<"You are an AI course assistant for the course.">>
MaterialsHeader == <<"\n\nThe following are relevant sections from course materials:\n\n">>
NoMaterialsNotice ==
    <<"\n\nNo specific course materials were found for this query. I will answer based on general knowledge.">>
CitationInstruction == <<" Explicitly include information from the provided document sections.">>
WebResults == <<"\n\nWeb search results related to the query:\n", "web results">>
UnavailableNotice ==
    <<"[", "The ", "system found this document relevant, but actual content is not available",
      ". This may indicate the document wasn't properly processed.", "]">>
MessageRequired == <<"Message is required">>
ChatNotFound == <<"Chat not found">>
FailedToProcess == <<"Failed to process chat message">>

\* the options of the request body; NoOptions is a body without the key
NoOptions == [undefined |-> TRUE]
ChatOptions ==
    { NoOptions,
      [enableCitations |-> TRUE, enableWebSearch |-> FALSE],
      [enableCitations |-> FALSE, enableWebSearch |-> TRUE] }

\* JSON bodies of POST /api/chat/[id]
ChatBodies ==
    {[message |-> <<>>, options |-> NoOptions]}
    \cup {[message |-> Question, options |-> options] : options \in ChatOptions}

\* semanticSearch as one call: any error inside it is caught and gives []
SemanticSearch(docs, rows, query, courseId, limit, embedded) ==
    LET documentIds == ProcessedDocumentIds(docs, courseId)
    IN  IF documentIds = {} \/ ~embedded THEN <<>>
        ELSE RankedResults(VectorsOf(rows, documentIds), EmbedQuery(query), limit)

DocumentTitle(docs, id) ==
    IF Exists(docs, id) THEN <<"document ", ToString(id)>> ELSE <<"Unknown Document">>

CleanContent(chunk) ==
    IF Includes(chunk, <<"Content of">>) /\ Includes(chunk, <<"would be processed", " here">>)
    THEN UnavailableNotice
    ELSE chunk

DocumentContexts(docs, searchResults) ==
    [k \in 1..Len(searchResults) |->
        [title |-> DocumentTitle(docs, searchResults[k].documentId),
         id |-> IF Exists(docs, searchResults[k].documentId)
                THEN searchResults[k].documentId ELSE 0,
         content |-> CleanContent(searchResults[k].chunk)]]

\* the citations pushed whatever the options say
CitationsAlways(options, contexts) ==
    [k \in 1..Len(contexts) |->
        [documentId |-> contexts[k].id,
         sourceText |-> <<"From \"">> \o contexts[k].title \o <<"\":\n">> \o contexts[k].content]]

\* a citation for the best-ranked context only
OnlyTopCitation(options, contexts) ==
    IF options.enableCitations /\ contexts # <<>>
    THEN <<[documentId |-> contexts[1].id,
            sourceText |-> <<"From \"">> \o contexts[1].title \o <<"\":\n">>
                           \o contexts[1].content]>>
    ELSE <<>>

\* the citations pushed in the forEach over the document contexts
Citations(options, contexts) ==
    IF options.enableCitations
    THEN [k \in 1..Len(contexts) |->
            [documentId |-> contexts[k].id,
             sourceText |-> <<"From \"">> \o contexts[k].title \o <<"\":\n">>
                            \o contexts[k].content]]
    ELSE <<>>

RECURSIVE ContextText(_, _)
ContextText(contexts, k) ==
    IF k > Len(contexts) THEN <<>>
    ELSE <<"Document ", ToString(k), ": \"">> \o contexts[k].title \o <<"\"\n">>
         \o contexts[k].content \o <<"\n\n">> \o ContextText(contexts, k + 1)

\* message.findMany({where: {chatId}, orderBy: {createdAt: "asc"}, take})
ChatHistory(rows, take) == SubSeq(rows, 1, IF Len(rows) > take THEN take ELSE Len(rows))

FormatHistory(chatHistory) ==
    [k \in 1..Len(chatHistory) |->
        [role |-> IF chatHistory[k].role = "user" THEN "user" ELSE "assistant",
         content |-> chatHistory[k].content]]

\* the try block from the system message to the push of the current message:
\* reading a key of missing options throws
BuildPrompt(docs, request, searchResults) ==
    LET options == request.options
        contexts == DocumentContexts(docs, searchResults)
        threw == options = NoOptions
        citations == IF threw THEN <<>> ELSE Citations(options, contexts)
        systemMessage ==
            SystemPreamble
            \o (IF searchResults # <<>> THEN MaterialsHeader \o ContextText(contexts, 1)
                ELSE NoMaterialsNotice)
            \o (IF ~threw /\ options.enableWebSearch THEN WebResults ELSE <<>>)
            \o (IF ~threw /\ options.enableCitations /\ citations # <<>>
                THEN CitationInstruction ELSE <<>>)
    IN  [threw |-> threw,
         citations |-> citations,
         formattedMessages |->
            IF threw THEN <<>>
            ELSE <<[role |-> "system", content |-> systemMessage]>>
                 \o FormatHistory(request.chatHistory)
                 \o <<[role |-> "user", content |-> request.message]>>]

\* assistantContent.replace(/\[.*?\]/g, "")
RECURSIVE StripBracketed(_)
StripBracketed(text) ==
    IF text = <<>> THEN <<>>
    ELSE IF Head(text) = "[" /\ \E j \in 2..Len(text) : text[j] = "]"
    THEN LET close == CHOOSE j \in 2..Len(text) :
                          text[j] = "]" /\ \A i \in 2..(j - 1) : text[i] # "]"
         IN  StripBracketed(SubSeq(text, close + 1, Len(text)))
    ELSE <<Head(text)>> \o StripBracketed(Tail(text))

\* the citations of PDF documents get their title when the content was masked
UpdatedCitations(docs, citations) ==
    [k \in 1..Len(citations) |->
        LET id == citations[k].documentId
        IN  IF /\ id \in DOMAIN docs /\ Exists(docs, id) /\ docs[id].type = "pdf"
               /\ Includes(citations[k].sourceText,
                      <<"system found this document relevant, but actual content is not available">>)
            THEN [citations[k] EXCEPT
                    !.sourceText = <<"From \"">> \o DocumentTitle(docs, id) \o <<"\":\n">> \o @]
            ELSE citations[k]]

\* a catch that hands the error to the outer handler
RethrowError(request) ==
    [request EXCEPT !.pc = "responded",
                    !.response = [status |-> 500, error |-> FailedToProcess]]

\* the catch of the try block round search, prompt and completion
CatchError(request) ==
    [request EXCEPT !.pc = "persist", !.assistantContent = Apology]

NoSend == [pc |-> "idle"]

\* from the request body to the message.create of the user message
SendMessage(s, message, options) ==
    /\ sends[s].pc = "idle"
    /\ \A earlier \in 1..(s - 1) : sends[earlier].pc # "idle"
    /\ LET request ==
            [pc |-> "history", message |-> message, options |-> options,
             userMessageId |-> 0, chatHistory |-> <<>>, searchResults |-> <<>>,
             citations |-> <<>>, formattedMessages |-> <<>>, completion |-> "none",
             assistantContent |-> <<>>, response |-> [status |-> 0]]
       IN  IF message = <<>>
           THEN /\ sends' = [sends EXCEPT ![s] =
                        [request EXCEPT !.pc = "responded",
                                        !.response = [status |-> 400, error |-> MessageRequired]]]
                /\ UNCHANGED messages
           ELSE IF ~chat.exists
           THEN /\ sends' = [sends EXCEPT ![s] =
                        [request EXCEPT !.pc = "responded",
                                        !.response = [status |-> 404, error |-> ChatNotFound]]]
                /\ UNCHANGED messages
           ELSE /\ messages' = Append(messages,
                        [id |-> Len(messages) + 1, role |-> "user", content |-> message,
                         citations |-> <<>>])
                /\ sends' = [sends EXCEPT ![s] =
                        [request EXCEPT !.userMessageId = Len(messages) + 1]]
    /\ UNCHANGED <<docVars, apiVars, assistant, call, chat>>

\* message.findMany for the history
ReadHistory(s) ==
    /\ sends[s].pc = "history"
    /\ LET chatHistory == ChatHistory(messages, HistoryTake)
       IN  sends' = [sends EXCEPT ![s] =
                [@ EXCEPT !.chatHistory = chatHistory,
                          !.pc = IF chat.type = "general" /\ Len(chatHistory) = 1
                                 THEN "title" ELSE "search"]]
    /\ UNCHANGED <<docVars, apiVars, assistant, call, chat, messages>>

\* the title of a general chat from its first message; a failure is logged
GenerateTitle(s, generated) ==
    /\ sends[s].pc = "title"
    /\ chat' = IF generated /\ chat.exists THEN [chat EXCEPT !.title = GeneratedTitle] ELSE chat
    /\ sends' = [sends EXCEPT ![s].pc = "search"]
    /\ UNCHANGED <<docVars, apiVars, assistant, call, messages>>

\* semantic search, document contexts, citations and the prompt
SearchAndPrompt(s, embedded) ==
    /\ sends[s].pc = "search"
    /\ LET request == sends[s]
           searchResults == SemanticSearch(documents, vectorStore, request.message,
                                           chat.courseId, SearchLimit, embedded)
           built == BuildPrompt(documents, request, searchResults)
           next == [request EXCEPT !.searchResults = searchResults,
                                   !.citations = built.citations,
                                   !.formattedMessages = built.formattedMessages]
       IN  sends' = [sends EXCEPT ![s] =
                IF built.threw THEN CatchError(next) ELSE [next EXCEPT !.pc = "complete"]]
    /\ UNCHANGED <<docVars, apiVars, assistant, call, chat, messages>>

\* openai.chat.completions.create answering `content`, and what follows it in
\* the try block
Completion(s, completed, content) ==
    /\ sends[s].pc = "complete"
    /\ LET request == sends[s]
           cited == request.options.enableCitations /\ request.citations # <<>>
       IN  sends' = [sends EXCEPT ![s] =
                IF completed
                THEN [request EXCEPT
                        !.pc = "persist",
                        !.completion = "ok",
                        !.assistantContent = IF cited THEN StripBracketed(content) ELSE content,
                        !.citations = IF cited THEN UpdatedCitations(documents, @) ELSE @]
                ELSE CatchError([request EXCEPT !.completion = "failed"])]
    /\ UNCHANGED <<docVars, apiVars, assistant, call, chat, messages>>

\* the completion call of a model that answers Answer
Complete(s, completed) == Completion(s, completed, Answer)

\* message.create of the assistant message with its citations, and the answer;
\* on a chat deleted meanwhile the foreign key makes the create throw
SaveAssistantMessage(s) ==
    /\ sends[s].pc = "persist"
    /\ LET request == sends[s]
           assistantMessage ==
                [id |-> Len(messages) + 1, role |-> "assistant",
                 content |-> request.assistantContent, citations |-> request.citations]
       IN  IF chat.exists
           THEN /\ messages' = Append(messages, assistantMessage)
                /\ sends' = [sends EXCEPT ![s] =
                        [request EXCEPT
                            !.pc = "responded",
                            !.response = [status |-> 200, id |-> assistantMessage.id,
                                          content |-> assistantMessage.content,
                                          citations |-> assistantMessage.citations]]]
           ELSE /\ sends' = [sends EXCEPT ![s] = RethrowError(request)]
                /\ UNCHANGED messages
    /\ UNCHANGED <<docVars, apiVars, assistant, call, chat>>

\* the chats the requests can find: empty, or with earlier messages
InitialLengths == {0, MaxInitMessages}

InitialMessages(n) ==
    [k \in 1..n |->
        [id |-> k, role |-> IF k % 2 = 1 THEN "user" ELSE "assistant",
         content |-> <<"message ", ToString(k)>>, citations |-> <<>>]]

\* a course with one processed text document whose chunks are all stored
StockedDocuments ==
    [id \in DocIds |->
        IF id = 1
        THEN [type |-> "text", content |-> LongText, url |-> FALSE, processed |-> TRUE,
              courseId |-> "c1", route |-> "create", task |-> "returned"]
        ELSE NoDoc]

StockedVectors ==
    [k \in 1..Len(SplitText(LongText)) |->
        [documentId |-> 1, chunk |-> SplitText(LongText)[k],
         embedding |-> JsonStringify(EmbedQuery(SplitText(LongText)[k]))]]

ChatInit ==
    /\ documents = StockedDocuments
    /\ vectorStore = StockedVectors
    /\ nextDocId = 2
    /\ runs = [r \in RunIds |-> NoRun]
    /\ deleting = {}
    /\ search = Idle
    /\ requests = 0
    /\ \E type \in {"general", "assignment"} :
          chat = [exists |-> TRUE, type |-> type, title |-> NewChatTitle, courseId |-> "c1"]
    /\ \E n \in InitialLengths : messages = InitialMessages(n)
    /\ sends = [s \in SendIds |-> NoSend]
    /\ ApiIdle
    /\ call = NoCall

ChatNext ==
    \/ \E s \in SendIds, body \in ChatBodies : SendMessage(s, body.message, body.options)
    \/ \E s \in SendIds : ReadHistory(s)
    \/ \E s \in SendIds, generated \in BOOLEAN : GenerateTitle(s, generated)
    \/ \E s \in SendIds, embedded \in BOOLEAN : SearchAndPrompt(s, embedded)
    \/ \E s \in SendIds, completed \in BOOLEAN : Complete(s, completed)
    \/ \E s \in SendIds : SaveAssistantMessage(s)

ChatSpec == ChatInit /\ [][ChatNext]_vars

-----------------------------------------------------------------------------
(* One send-message request alone, over the documents a course can hold    *)
(* and the replies the model can give                                      *)

\* the placeholder of the course edit page without the file name: one chunk
ShortPlaceholder == <<"Content of", "would be processed", " here">>
CitedContents == {LongText, ShortPlaceholder}
Replies == {Answer, <<"no sources given">>, <<>>}

\* a course with one processed document of the given type and content
CitedDocuments(type, content) ==
    [id \in DocIds |->
        IF id = 1
        THEN [type |-> type, content |-> content, url |-> FALSE, processed |-> TRUE,
              courseId |-> "c1", route |-> "create", task |-> "returned"]
        ELSE NoDoc]

\* the rows processDocument stored for that content
ChunkRows(content) ==
    [k \in 1..Len(SplitText(content)) |->
        [documentId |-> 1, chunk |-> SplitText(content)[k],
         embedding |-> JsonStringify(EmbedQuery(SplitText(content)[k]))]]

CiteInit ==
    /\ \E type \in {"text", "pdf"}, content \in CitedContents :
          /\ documents = CitedDocuments(type, content)
          /\ vectorStore = ChunkRows(content)
    /\ nextDocId = 2
    /\ runs = [r \in RunIds |-> NoRun]
    /\ deleting = {}
    /\ search = Idle
    /\ requests = 0
    /\ \E type \in {"general", "assignment"} :
          chat = [exists |-> TRUE, type |-> type, title |-> NewChatTitle, courseId |-> "c1"]
    /\ \E n \in InitialLengths : messages = InitialMessages(n)
    /\ sends = [s \in SendIds |-> NoSend]
    /\ ApiIdle
    /\ call = NoCall

CiteNext ==
    \/ \E body \in ChatBodies : SendMessage(1, body.message, body.options)
    \/ ReadHistory(1)
    \/ \E generated \in BOOLEAN : GenerateTitle(1, generated)
    \/ \E embedded \in BOOLEAN : SearchAndPrompt(1, embedded)
    \/ \E completed \in BOOLEAN, reply \in Replies : Completion(1, completed, reply)
    \/ SaveAssistantMessage(1)

CiteSpec == CiteInit /\ [][CiteNext]_vars

-----------------------------------------------------------------------------
(* DELETE /api/chat/[id]/empty next to a send-message request on the same  *)
(* chat                                                                    *)

EmptyRoute == "DELETE /api/chat/[id]/empty"
NoEmptyRequest == [route |-> "none"]

\* chat.findFirst with _count.messages
EmptyCheck ==
    /\ api = NoEmptyRequest \/ (api.route = EmptyRoute /\ api.pc = "responded")
    /\ api' = IF chat.exists
              THEN [route |-> EmptyRoute, pc |-> "checked", count |-> Len(messages),
                    status |-> 0, deleted |-> FALSE]
              ELSE [route |-> EmptyRoute, pc |-> "responded", count |-> 0,
                    status |-> 404, deleted |-> FALSE]
    /\ UNCHANGED <<docVars, chatVars, db, assistant, call>>

\* if (chat._count.messages === 0)
DeletesChat(count) == count = 0

\* chat.delete (its messages and their citations go with it) and the answer
EmptyDelete ==
    /\ api.route = EmptyRoute
    /\ api.pc = "checked"
    /\ IF DeletesChat(api.count)
       THEN /\ chat' = [chat EXCEPT !.exists = FALSE]
            /\ messages' = IF chat.exists THEN <<>> ELSE messages
            /\ api' = [api EXCEPT !.pc = "responded",
                                  !.status = IF chat.exists THEN 200 ELSE 500,
                                  !.deleted = chat.exists]
       ELSE /\ api' = [api EXCEPT !.pc = "responded", !.status = 200, !.deleted = FALSE]
            /\ UNCHANGED <<chat, messages>>
    /\ UNCHANGED <<docVars, sends, db, assistant, call>>

EmptyInit ==
    /\ documents = StockedDocuments
    /\ vectorStore = StockedVectors
    /\ nextDocId = 2
    /\ runs = [r \in RunIds |-> NoRun]
    /\ deleting = {}
    /\ search = Idle
    /\ requests = 0
    /\ chat = [exists |-> TRUE, type |-> "general", title |-> NewChatTitle, courseId |-> "c1"]
    /\ \E n \in {0, 2} : messages = InitialMessages(n)
    /\ sends = [s \in SendIds |-> NoSend]
    /\ db = [exists |-> FALSE]
    /\ api = NoEmptyRequest
    /\ assistant = [pc |-> "none"]
    /\ call = NoCall

EmptyNext ==
    \/ EmptyCheck
    \/ EmptyDelete
    \/ \E body \in ChatBodies : SendMessage(1, body.message, body.options)
    \/ ReadHistory(1)
    \/ \E generated \in BOOLEAN : GenerateTitle(1, generated)
    \/ \E embedded \in BOOLEAN : SearchAndPrompt(1, embedded)
    \/ \E completed \in BOOLEAN : Complete(1, completed)
    \/ SaveAssistantMessage(1)

EmptySpec == EmptyInit /\ [][EmptyNext]_vars

-----------------------------------------------------------------------------
(* semanticSearch over a store that earlier processing has left: two        *)
(* documents and any rows of theirs, with embeddings of either dimension    *)

SearchDocIds == {1, 2}
StoredVectors == {<<1, 0>>, <<0, 1>>, <<1, 1>>, <<1>>}
SearchLimits == {2, SearchLimit}

StoredDocument(courseId, processed) ==
    [type |-> "text", content |-> LongText, url |-> FALSE, processed |-> processed,
     courseId |-> courseId, route |-> "create",
     task |-> IF processed THEN "returned" ELSE "pending"]

StoredRows(owners, embeddings) ==
    [k \in 1..Len(owners) |->
        [documentId |-> owners[k], chunk |-> <<"chunk ", ToString(k)>>,
         embedding |-> JsonStringify(embeddings[k])]]

SearchInit ==
    /\ \E courseId \in Courses, processed \in BOOLEAN :
          documents = <<StoredDocument("c1", TRUE), StoredDocument(courseId, processed)>>
    /\ \E n \in 0..MaxRows :
          \E owners \in [1..n -> SearchDocIds], embeddings \in [1..n -> StoredVectors] :
              vectorStore = StoredRows(owners, embeddings)
    /\ nextDocId = 3
    /\ runs = [r \in RunIds |-> NoRun]
    /\ deleting = {}
    /\ search = Idle
    /\ requests = 0
    /\ ChatIdle
    /\ ApiIdle
    /\ call = NoCall

SearchNext ==
    \/ \E c \in Courses, q \in Queries, limit \in SearchLimits, embedded \in BOOLEAN :
          SearchDocuments(c, q, limit, embedded)
    \/ SearchVectors
    \/ SearchReturn

SearchSpec == SearchInit /\ [][SearchNext]_vars

-----------------------------------------------------------------------------
(* calculateCosineSimilarity on its own: one call on any two vectors       *)

Components == {-1, 0, 1, 2}
NumberVectors == UNION {[1..n -> Components] : n \in 0..MaxDim}

CosineCall ==
    /\ call.pc = "cosine"
    /\ call' = [pc |-> "returned", vecA |-> call.vecA, vecB |-> call.vecB,
                similarity |-> CalculateCosineSimilarity(call.vecA, call.vecB)]
    /\ UNCHANGED <<docVars, chatVars, apiVars, assistant>>

CosineInit ==
    /\ DocInit
    /\ ChatIdle
    /\ ApiIdle
    /\ \E vecA \in NumberVectors, vecB \in NumberVectors :
          call = [pc |-> "cosine", vecA |-> vecA, vecB |-> vecB, similarity |-> 0]

CosineNext == CosineCall

CosineSpec == CosineInit /\ [][CosineNext]_vars

-----------------------------------------------------------------------------
(* The API routes over the relational store: who may read and change what. *)
(* Each handler is one step: session check, validation, lookup and effect  *)
(* in the order the code runs them.  A response is its status and the set  *)
(* of rows whose fields its body carries.                                  *)

\* u1 is the user the requests come from; u2 and the user the test route
\* creates own the rows u1 has no right to
Users == {"u1", "u2"}
TestUser == "test"
NoSession == "none"
Sessions == {"u1", NoSession}
Missing == 0

\* the store the requests start from: each user owns a course with a
\* document and a chat; u1's document is processed and cited, u2's chat is
\* empty
StockedStore(nodeEnv) ==
    [exists |-> TRUE, nodeEnv |-> nodeEnv,
     courses |-> {[id |-> 1, userId |-> "u1", name |-> "old"],
                  [id |-> 2, userId |-> "u2", name |-> "old"]},
     documents |-> {[id |-> 3, courseId |-> 1, type |-> "pdf", processed |-> TRUE],
                    [id |-> 4, courseId |-> 2, type |-> "text", processed |-> FALSE]},
     vectors |-> {[id |-> 5, documentId |-> 3]},
     chats |-> {[id |-> 6, courseId |-> 1, userId |-> "u1"],
                [id |-> 7, courseId |-> 2, userId |-> "u2"]},
     messages |-> {[id |-> 8, chatId |-> 6, role |-> "user"],
                   [id |-> 9, chatId |-> 6, role |-> "assistant"]},
     citations |-> {[id |-> 10, messageId |-> 9, documentId |-> 3]},
     tasks |-> {},
     next |-> 11,
     writes |-> 0]

Ids(table) == {row.id : row \in table}
Named(table) == Ids(table) \cup {Missing}
Row(table, id) == CHOOSE row \in table : row.id = id

\* prisma.course.findFirst({ where: { id, userId: session.user.id } })
OwnCourse(store, session, id) ==
    \E c \in store.courses : c.id = id /\ c.userId = session

\* document.course.userId !== session.user.id, on a document that exists
DocumentOwner(store, id) == Row(store.courses, Row(store.documents, id).courseId).userId

AnyChat(store, session, id) == \E ch \in store.chats : ch.id = id

\* prisma.chat.findFirst({ where: { id, userId: session.user.id } })
OwnChat(store, session, id) ==
    \E ch \in store.chats : ch.id = id /\ ch.userId = session

CascadeKeepingCitations(store) ==
    LET remaining == {d \in store.documents : d.courseId \in Ids(store.courses)}
        chats == {ch \in store.chats : ch.courseId \in Ids(store.courses)}
        kept == {m \in store.messages : m.chatId \in Ids(chats)}
    IN  [store EXCEPT !.documents = remaining,
                      !.vectors = {v \in store.vectors : v.documentId \in Ids(remaining)},
                      !.chats = chats,
                      !.messages = kept]

\* ON DELETE CASCADE along Course -> Document -> VectorStore and
\* Course -> Chat -> Message -> Citation, applied to a store some rows were
\* just deleted from
Cascade(store) ==
    LET remaining == {d \in store.documents : d.courseId \in Ids(store.courses)}
        chats == {ch \in store.chats : ch.courseId \in Ids(store.courses)}
        kept == {m \in store.messages : m.chatId \in Ids(chats)}
    IN  [store EXCEPT !.documents = remaining,
                      !.vectors = {v \in store.vectors : v.documentId \in Ids(remaining)},
                      !.chats = chats,
                      !.messages = kept,
                      !.citations = {ct \in store.citations : ct.messageId \in Ids(kept)}]

Reply(route, session, id, valid, status, data) ==
    api' = [route |-> route, session |-> session, id |-> id, valid |-> valid,
            status |-> status, data |-> data]

Refuse(route, session, id, valid, status) ==
    /\ Reply(route, session, id, valid, status, {})
    /\ UNCHANGED db

\* a write the model still has room for
Write(store) ==
    /\ db.writes < MaxWrites
    /\ db' = [store EXCEPT !.writes = db.writes + 1]

OtherVars == <<docVars, chatVars, call, assistant>>

NoRequest ==
    [route |-> "none", session |-> NoSession, id |-> Missing, valid |-> TRUE,
     status |-> 0, data |-> {}]

\* the server takes the next request, or runs the next callback, once the
\* response before it has been sent
Ready == db.exists /\ api = NoRequest

\* the response goes out
SendResponse ==
    /\ db.exists
    /\ api # NoRequest
    /\ api' = NoRequest
    /\ UNCHANGED db
    /\ UNCHANGED OtherVars

\* GET /api/courses
CoursesGET(session) ==
    /\ Ready
    /\ IF session = NoSession THEN Refuse("GET /api/courses", session, Missing, TRUE, 401)
       ELSE /\ Reply("GET /api/courses", session, Missing, TRUE, 200,
                     {<<"course", c.id>> : c \in {c \in db.courses : c.userId = session}})
            /\ UNCHANGED db
    /\ UNCHANGED OtherVars

\* POST /api/courses
CoursesPOST(session, valid) ==
    /\ Ready
    /\ LET route == "POST /api/courses"
       IN  IF session = NoSession THEN Refuse(route, session, Missing, valid, 401)
           ELSE IF ~valid THEN Refuse(route, session, Missing, valid, 400)
           ELSE /\ Write([db EXCEPT !.courses = @ \cup {[id |-> db.next, userId |-> session,
                                                         name |-> "new"]},
                                    !.next = @ + 1])
                /\ Reply(route, session, Missing, valid, 201, {<<"course", db.next>>})
    /\ UNCHANGED OtherVars

\* GET /api/courses/[id]
CourseGET(session, id) ==
    /\ Ready
    /\ LET route == "GET /api/courses/[id]"
       IN  IF session = NoSession THEN Refuse(route, session, id, TRUE, 401)
           ELSE IF ~OwnCourse(db, session, id) THEN Refuse(route, session, id, TRUE, 404)
           ELSE /\ Reply(route, session, id, TRUE, 200, {<<"course", id>>})
                /\ UNCHANGED db
    /\ UNCHANGED OtherVars

\* PATCH /api/courses/[id]
CoursePATCH(session, id, valid) ==
    /\ Ready
    /\ LET route == "PATCH /api/courses/[id]"
       IN  IF session = NoSession THEN Refuse(route, session, id, valid, 401)
           ELSE IF ~valid THEN Refuse(route, session, id, valid, 400)
           ELSE IF id \notin Ids(db.courses) THEN Refuse(route, session, id, valid, 404)
           ELSE IF Row(db.courses, id).userId # session
                THEN Refuse(route, session, id, valid, 403)
           ELSE /\ db' = [db EXCEPT !.courses =
                            (@ \ {Row(db.courses, id)})
                            \cup {[Row(db.courses, id) EXCEPT !.name = "new"]}]
                /\ Reply(route, session, id, valid, 200, {<<"course", id>>})
    /\ UNCHANGED OtherVars

\* DELETE /api/courses/[id]
CourseDELETE(session, id) ==
    /\ Ready
    /\ LET route == "DELETE /api/courses/[id]"
       IN  IF session = NoSession THEN Refuse(route, session, id, TRUE, 401)
           ELSE IF id \notin Ids(db.courses) THEN Refuse(route, session, id, TRUE, 404)
           ELSE IF Row(db.courses, id).userId # session
                THEN Refuse(route, session, id, TRUE, 403)
           ELSE /\ db' = Cascade([db EXCEPT !.courses = @ \ {Row(db.courses, id)}])
                /\ Reply(route, session, id, TRUE, 200, {})
    /\ UNCHANGED OtherVars

\* GET /api/courses/[id]/documents
CourseDocumentsGET(session, id) ==
    /\ Ready
    /\ LET route == "GET /api/courses/[id]/documents"
       IN  IF session = NoSession THEN Refuse(route, session, id, TRUE, 401)
           ELSE IF ~OwnCourse(db, session, id) THEN Refuse(route, session, id, TRUE, 404)
           ELSE /\ Reply(route, session, id, TRUE, 200,
                         {<<"document", d.id>> : d \in {d \in db.documents : d.courseId = id}})
                /\ UNCHANGED db
    /\ UNCHANGED OtherVars

\* POST /api/courses/[id]/documents: the body is validated before the
\* course is looked up
CourseDocumentsPOST(session, id, valid) ==
    /\ Ready
    /\ LET route == "POST /api/courses/[id]/documents"
       IN  IF session = NoSession THEN Refuse(route, session, id, valid, 401)
           ELSE IF ~valid THEN Refuse(route, session, id, valid, 400)
           ELSE IF ~OwnCourse(db, session, id) THEN Refuse(route, session, id, valid, 404)
           ELSE /\ Write([db EXCEPT !.documents = @ \cup {[id |-> db.next, courseId |-> id,
                                                           type |-> "text",
                                                           processed |-> FALSE]},
                                    !.tasks = @ \cup {[documentId |-> db.next,
                                                       origin |-> "create"]},
                                    !.next = @ + 1])
                /\ Reply(route, session, id, valid, 201, {<<"document", db.next>>})
    /\ UNCHANGED OtherVars

\* POST /api/courses/[id]/upload: the course is looked up before the form is
\* read
CourseUploadPOST(session, id, valid) ==
    /\ Ready
    /\ LET route == "POST /api/courses/[id]/upload"
       IN  IF session = NoSession THEN Refuse(route, session, id, valid, 401)
           ELSE IF ~OwnCourse(db, session, id) THEN Refuse(route, session, id, valid, 404)
           ELSE IF ~valid THEN Refuse(route, session, id, valid, 400)
           ELSE /\ Write([db EXCEPT !.documents = @ \cup {[id |-> db.next, courseId |-> id,
                                                           type |-> "pdf",
                                                           processed |-> FALSE]},
                                    !.tasks = @ \cup {[documentId |-> db.next,
                                                       origin |-> "upload"]},
                                    !.next = @ + 1])
                /\ Reply(route, session, id, valid, 200, {<<"document", db.next>>})
    /\ UNCHANGED OtherVars

\* the timer callback both routes schedule: processDocument stores a row if
\* the document is still there, then the callback writes processed
BackgroundTask(task, stored, completed) ==
    /\ Ready
    /\ task \in db.tasks
    /\ LET id == task.documentId
           there == id \in Ids(db.documents)
           document == Row(db.documents, id)
       IN  /\ db' = [db EXCEPT
                       !.tasks = @ \ {task},
                       !.vectors = IF there /\ stored
                                   THEN @ \cup {[id |-> db.next, documentId |-> id]}
                                   ELSE @,
                       !.next = IF there /\ stored THEN @ + 1 ELSE @,
                       !.documents = IF there
                                     THEN (@ \ {document}) \cup
                                          {[document EXCEPT !.processed =
                                               completed \/ task.origin = "upload"]}
                                     ELSE @]
           /\ Reply("setTimeout callback", NoSession, id, TRUE, 0, {})
    /\ UNCHANGED OtherVars

\* POST /api/courses/[id]/chat; body.reuse: no title on a general chat, so
\* an existing chat of the course is returned instead of a new one
CourseChatPOST(session, id, body) ==
    /\ Ready
    /\ LET route == "POST /api/courses/[id]/chat"
           existing == {ch \in db.chats : ch.courseId = id /\ ch.userId = session}
       IN  IF session = NoSession THEN Refuse(route, session, id, body.valid, 401)
           ELSE IF ~OwnCourse(db, session, id) THEN Refuse(route, session, id, body.valid, 404)
           ELSE IF body.reuse /\ existing # {}
                THEN /\ \E ch \in existing :
                            Reply(route, session, id, body.valid, 200, {<<"chat", ch.id>>})
                     /\ UNCHANGED db
           ELSE IF ~body.valid THEN Refuse(route, session, id, body.valid, 400)
           ELSE /\ Write([db EXCEPT
                            !.chats = @ \cup {[id |-> db.next, courseId |-> id,
                                               userId |-> session]},
                            !.messages = IF body.firstMessage
                                         THEN @ \cup {[id |-> db.next + 1, chatId |-> db.next,
                                                       role |-> "user"]}
                                         ELSE @,
                            !.next = IF body.firstMessage THEN @ + 2 ELSE @ + 1])
                /\ Reply(route, session, id, body.valid, 200, {<<"chat", db.next>>})
    /\ UNCHANGED OtherVars

\* GET /api/courses/[id]/chat
CourseChatGET(session, id) ==
    /\ Ready
    /\ LET route == "GET /api/courses/[id]/chat"
       IN  IF session = NoSession THEN Refuse(route, session, id, TRUE, 401)
           ELSE IF ~OwnCourse(db, session, id) THEN Refuse(route, session, id, TRUE, 404)
           ELSE /\ Reply(route, session, id, TRUE, 200,
                         {<<"chat", ch.id>> :
                             ch \in {ch \in db.chats : ch.courseId = id /\ ch.userId = session}})
                /\ UNCHANGED db
    /\ UNCHANGED OtherVars

\* GET /api/documents/[id]
DocumentGET(session, id) ==
    /\ Ready
    /\ LET route == "GET /api/documents/[id]"
       IN  IF session = NoSession THEN Refuse(route, session, id, TRUE, 401)
           ELSE IF id \notin Ids(db.documents) THEN Refuse(route, session, id, TRUE, 404)
           ELSE IF DocumentOwner(db, id) # session THEN Refuse(route, session, id, TRUE, 403)
           ELSE /\ Reply(route, session, id, TRUE, 200, {<<"document", id>>})
                /\ UNCHANGED db
    /\ UNCHANGED OtherVars

\* DELETE /api/documents/[id]: vectorStore.deleteMany, then document.delete
DocumentDELETE(session, id) ==
    /\ Ready
    /\ LET route == "DELETE /api/documents/[id]"
       IN  IF session = NoSession THEN Refuse(route, session, id, TRUE, 401)
           ELSE IF id \notin Ids(db.documents) THEN Refuse(route, session, id, TRUE, 404)
           ELSE IF DocumentOwner(db, id) # session THEN Refuse(route, session, id, TRUE, 403)
           ELSE /\ db' = Cascade([db EXCEPT
                                    !.vectors = {v \in @ : v.documentId # id},
                                    !.documents = @ \ {Row(db.documents, id)}])
                /\ Reply(route, session, id, TRUE, 200, {})
    /\ UNCHANGED OtherVars

\* POST /api/documents/[id]/process, with processDocument run to its end
DocumentProcessPOST(session, id, stored, completed) ==
    /\ Ready
    /\ LET route == "POST /api/documents/[id]/process"
           document == Row(db.documents, id)
       IN  IF session = NoSession THEN Refuse(route, session, id, TRUE, 401)
           ELSE IF id \notin Ids(db.documents) THEN Refuse(route, session, id, TRUE, 404)
           ELSE IF DocumentOwner(db, id) # session THEN Refuse(route, session, id, TRUE, 403)
           ELSE IF document.processed
                THEN /\ Reply(route, session, id, TRUE, 200, {})
                     /\ UNCHANGED db
           ELSE /\ Write([db EXCEPT
                            !.vectors = IF stored
                                        THEN @ \cup {[id |-> db.next, documentId |-> id]}
                                        ELSE @,
                            !.next = IF stored THEN @ + 1 ELSE @,
                            !.documents = (@ \ {document}) \cup
                                          {[document EXCEPT !.processed = completed]}])
                /\ Reply(route, session, id, TRUE, IF completed THEN 200 ELSE 500, {})
    /\ UNCHANGED OtherVars

\* GET /api/documents/[id]/file; served: the pdf has a url or a temp file
DocumentFileGET(session, id, served) ==
    /\ Ready
    /\ LET route == "GET /api/documents/[id]/file"
       IN  IF session = NoSession THEN Refuse(route, session, id, TRUE, 401)
           ELSE IF id \notin Ids(db.documents) THEN Refuse(route, session, id, TRUE, 404)
           ELSE IF DocumentOwner(db, id) # session THEN Refuse(route, session, id, TRUE, 404)
           ELSE IF Row(db.documents, id).type # "pdf"
                THEN Refuse(route, session, id, TRUE, 400)
           ELSE IF ~served THEN Refuse(route, session, id, TRUE, 404)
           ELSE /\ Reply(route, session, id, TRUE, 200, {<<"document", id>>})
                /\ UNCHANGED db
    /\ UNCHANGED OtherVars

\* GET /api/chat/[id]
ChatGET(session, id) ==
    /\ Ready
    /\ LET route == "GET /api/chat/[id]"
       IN  IF session = NoSession THEN Refuse(route, session, id, TRUE, 401)
           ELSE IF ~OwnChat(db, session, id) THEN Refuse(route, session, id, TRUE, 404)
           ELSE /\ Reply(route, session, id, TRUE, 200,
                         {<<"chat", id>>, <<"course", Row(db.chats, id).courseId>>})
                /\ UNCHANGED db
    /\ UNCHANGED OtherVars

\* semanticSearch(message, chat.course.id, 5) as the rows it can return
SearchResults(store, courseId) ==
    LET documentIds == {d.id : d \in {d \in store.documents :
                                         d.courseId = courseId /\ d.processed}}
        candidates == {v \in store.vectors : v.documentId \in documentIds}
    IN  {results \in SUBSET candidates :
            Cardinality(results) = IF Cardinality(candidates) < SearchLimit
                                   THEN Cardinality(candidates) ELSE SearchLimit}

\* POST /api/chat/[id]: the message is validated before the chat is looked
\* up; cited: citations were enabled and the search and completion worked
ChatPOST(session, id, valid, cited) ==
    /\ Ready
    /\ LET route == "POST /api/chat/[id]"
       IN  IF session = NoSession THEN Refuse(route, session, id, valid, 401)
           ELSE IF ~valid THEN Refuse(route, session, id, valid, 400)
           ELSE IF ~OwnChat(db, session, id) THEN Refuse(route, session, id, valid, 404)
           ELSE \E results \in SearchResults(db, Row(db.chats, id).courseId) :
                   LET rank(v) == Cardinality({w \in results : w.id < v.id})
                       citations == IF cited
                                    THEN {[id |-> db.next + 2 + rank(v),
                                           messageId |-> db.next + 1,
                                           documentId |-> v.documentId] : v \in results}
                                    ELSE {}
                   IN  /\ Write([db EXCEPT
                                   !.messages = @ \cup
                                       {[id |-> db.next, chatId |-> id, role |-> "user"],
                                        [id |-> db.next + 1, chatId |-> id,
                                         role |-> "assistant"]},
                                   !.citations = @ \cup citations,
                                   !.next = @ + 2 + Cardinality(citations)])
                       /\ Reply(route, session, id, valid, 200,
                                {<<"message", db.next + 1>>}
                                \cup {<<"citation", ct.id>> : ct \in citations})
    /\ UNCHANGED OtherVars

\* DELETE /api/chat/[id]
ChatDELETE(session, id) ==
    /\ Ready
    /\ LET route == "DELETE /api/chat/[id]"
       IN  IF session = NoSession THEN Refuse(route, session, id, TRUE, 401)
           ELSE IF ~OwnChat(db, session, id) THEN Refuse(route, session, id, TRUE, 404)
           ELSE /\ db' = Cascade([db EXCEPT !.chats = @ \ {Row(db.chats, id)}])
                /\ Reply(route, session, id, TRUE, 200, {})
    /\ UNCHANGED OtherVars

\* DELETE /api/chat/[id]/empty
ChatEmptyDELETE(session, id) ==
    /\ Ready
    /\ LET route == "DELETE /api/chat/[id]/empty"
       IN  IF session = NoSession THEN Refuse(route, session, id, TRUE, 401)
           ELSE IF ~OwnChat(db, session, id) THEN Refuse(route, session, id, TRUE, 404)
           ELSE IF \E m \in db.messages : m.chatId = id
                THEN /\ Reply(route, session, id, TRUE, 200, {<<"chat", id>>})
                     /\ UNCHANGED db
           ELSE /\ db' = Cascade([db EXCEPT !.chats = @ \ {Row(db.chats, id)}])
                /\ Reply(route, session, id, TRUE, 200, {<<"chat", id>>})
    /\ UNCHANGED OtherVars

\* GET /api/chat/[id]/messages
ChatMessagesGET(session, id) ==
    /\ Ready
    /\ LET route == "GET /api/chat/[id]/messages"
           found == {m \in db.messages : m.chatId = id}
       IN  IF session = NoSession THEN Refuse(route, session, id, TRUE, 401)
           ELSE IF ~OwnChat(db, session, id) THEN Refuse(route, session, id, TRUE, 404)
           ELSE /\ Reply(route, session, id, TRUE, 200,
                         {<<"message", m.id>> : m \in found}
                         \cup {<<"citation", ct.id>> :
                                  ct \in {ct \in db.citations : ct.messageId \in Ids(found)}})
                /\ UNCHANGED db
    /\ UNCHANGED OtherVars

\* GET /api/chats/recent: the chats of the courses the user owns
ChatsRecentGET(session) ==
    /\ Ready
    /\ LET route == "GET /api/chats/recent"
           courseIds == {c.id : c \in {c \in db.courses : c.userId = session}}
       IN  IF session = NoSession THEN Refuse(route, session, Missing, TRUE, 401)
           ELSE /\ Reply(route, session, Missing, TRUE, 200,
                         {<<"chat", ch.id>> :
                             ch \in {ch \in db.chats : ch.courseId \in courseIds}})
                /\ UNCHANGED db
    /\ UNCHANGED OtherVars

\* GET /api/test: no session is read; outside development it answers 403,
\* in development it creates a test course with three documents and a chat
TestGET(session) ==
    /\ Ready
    /\ LET route == "GET /api/test"
           n == db.next
       IN  IF db.nodeEnv # "development" THEN Refuse(route, session, Missing, TRUE, 403)
           ELSE /\ Write([db EXCEPT
                            !.courses = @ \cup {[id |-> n, userId |-> TestUser,
                                                 name |-> "new"]},
                            !.documents = @ \cup
                                {[id |-> n + 1, courseId |-> n, type |-> "text",
                                  processed |-> FALSE],
                                 [id |-> n + 2, courseId |-> n, type |-> "url",
                                  processed |-> FALSE],
                                 [id |-> n + 3, courseId |-> n, type |-> "pdf",
                                  processed |-> FALSE]},
                            !.chats = @ \cup {[id |-> n + 4, courseId |-> n,
                                               userId |-> TestUser]},
                            !.next = n + 5])
                /\ Reply(route, session, Missing, TRUE, 200,
                         {<<"course", n>>, <<"document", n + 1>>, <<"document", n + 2>>,
                          <<"document", n + 3>>, <<"chat", n + 4>>})
    /\ UNCHANGED OtherVars

ChatCreationBodies ==
    {[valid |-> TRUE, reuse |-> FALSE, firstMessage |-> FALSE],
     [valid |-> TRUE, reuse |-> FALSE, firstMessage |-> TRUE],
     [valid |-> TRUE, reuse |-> TRUE, firstMessage |-> FALSE],
     [valid |-> FALSE, reuse |-> FALSE, firstMessage |-> FALSE]}

ApiInit ==
    /\ DocInit
    /\ ChatIdle
    /\ call = NoCall
    /\ assistant = [pc |-> "none"]
    /\ \E nodeEnv \in {"development", "production"} : db = StockedStore(nodeEnv)
    /\ api = NoRequest

ApiNext ==
    \/ \E session \in Sessions : CoursesGET(session)
    \/ \E session \in Sessions, valid \in BOOLEAN : CoursesPOST(session, valid)
    \/ \E session \in Sessions, id \in Named(db.courses) : CourseGET(session, id)
    \/ \E session \in Sessions, id \in Named(db.courses), valid \in BOOLEAN :
          CoursePATCH(session, id, valid)
    \/ \E session \in Sessions, id \in Named(db.courses) : CourseDELETE(session, id)
    \/ \E session \in Sessions, id \in Named(db.courses) : CourseDocumentsGET(session, id)
    \/ \E session \in Sessions, id \in Named(db.courses), valid \in BOOLEAN :
          CourseDocumentsPOST(session, id, valid)
    \/ \E session \in Sessions, id \in Named(db.courses), valid \in BOOLEAN :
          CourseUploadPOST(session, id, valid)
    \/ \E task \in db.tasks, stored \in BOOLEAN, completed \in BOOLEAN :
          BackgroundTask(task, stored, completed)
    \/ \E session \in Sessions, id \in Named(db.courses), body \in ChatCreationBodies :
          CourseChatPOST(session, id, body)
    \/ \E session \in Sessions, id \in Named(db.courses) : CourseChatGET(session, id)
    \/ \E session \in Sessions, id \in Named(db.documents) : DocumentGET(session, id)
    \/ \E session \in Sessions, id \in Named(db.documents) : DocumentDELETE(session, id)
    \/ \E session \in Sessions, id \in Named(db.documents),
          stored \in BOOLEAN, completed \in BOOLEAN :
          DocumentProcessPOST(session, id, stored, completed)
    \/ \E session \in Sessions, id \in Named(db.documents), served \in BOOLEAN :
          DocumentFileGET(session, id, served)
    \/ \E session \in Sessions, id \in Named(db.chats) : ChatGET(session, id)
    \/ \E session \in Sessions, id \in Named(db.chats), valid \in BOOLEAN, cited \in BOOLEAN :
          ChatPOST(session, id, valid, cited)
    \/ \E session \in Sessions, id \in Named(db.chats) : ChatDELETE(session, id)
    \/ \E session \in Sessions, id \in Named(db.chats) : ChatEmptyDELETE(session, id)
    \/ \E session \in Sessions, id \in Named(db.chats) : ChatMessagesGET(session, id)
    \/ \E session \in Sessions : ChatsRecentGET(session)
    \/ \E session \in Sessions : TestGET(session)
    \/ SendResponse

ApiSpec == ApiInit /\ [][ApiNext]_vars

-----------------------------------------------------------------------------
(* POST /api/courses/[id]/upload with the form it is sent                  *)

NoFileProvided == <<"No file provided">>
TitleRequired == <<"Document title is required">>
OnlyPdf == <<"Only PDF files are supported">>
EmptyFile == <<"Invalid PDF file: Empty file or conversion failed">>
BadForm == <<"Failed to parse form data. Ensure you are sending a proper FormData object.">>
FailedPdf == <<"Failed to process PDF file">>
SignInFirst == <<"You must be signed in to access this endpoint">>
CourseNotFound == <<"Course not found">>

\* a body req.formData() rejects
Unparseable == [unparseable |-> TRUE]

\* file: absent, a PDF, a PDF of zero bytes, a file that is no PDF;
\* title: absent, only whitespace, a title
UploadForms ==
    {Unparseable}
    \cup [file : {"none", "pdf", "empty pdf", "text file"}, title : {"none", "blank", "given"}]

\* the title is looked at before the file
ValidateTitleFirst(form) ==
    IF form = Unparseable THEN BadForm
    ELSE IF form.title \in {"none", "blank"} THEN TitleRequired
    ELSE IF form.file = "none" THEN NoFileProvided
    ELSE IF form.file = "text file" THEN OnlyPdf
    ELSE IF form.file = "empty pdf" THEN EmptyFile
    ELSE <<>>

\* the validation of the form, in the order of the code: the message of the
\* 400 it gives, or <<>> when the form passes
ValidateUpload(form) ==
    IF form = Unparseable THEN BadForm
    ELSE IF form.file = "none" THEN NoFileProvided
    ELSE IF form.title \in {"none", "blank"} THEN TitleRequired
    ELSE IF form.file = "text file" THEN OnlyPdf
    ELSE IF form.file = "empty pdf" THEN EmptyFile
    ELSE <<>>

UploadReply(session, id, form, status, error, data) ==
    api' = [route |-> "POST /api/courses/[id]/upload", session |-> session, id |-> id,
            form |-> form, status |-> status, error |-> error, data |-> data]

\* the whole handler; `created`: document.create succeeded
CourseUploadForm(session, id, form, created) ==
    /\ Ready
    /\ IF session = NoSession
       THEN UploadReply(session, id, form, 401, SignInFirst, {}) /\ UNCHANGED db
       ELSE IF ~OwnCourse(db, session, id)
       THEN UploadReply(session, id, form, 404, CourseNotFound, {}) /\ UNCHANGED db
       ELSE IF ValidateUpload(form) # <<>>
       THEN UploadReply(session, id, form, 400, ValidateUpload(form), {}) /\ UNCHANGED db
       ELSE IF ~created
       THEN UploadReply(session, id, form, 500, FailedPdf, {}) /\ UNCHANGED db
       ELSE /\ Write([db EXCEPT !.documents = @ \cup {[id |-> db.next, courseId |-> id,
                                                       type |-> "pdf",
                                                       processed |-> FALSE]},
                                !.tasks = @ \cup {[documentId |-> db.next,
                                                   origin |-> "upload"]},
                                !.next = @ + 1])
            /\ UploadReply(session, id, form, 200, <<>>, {<<"document", db.next>>})
    /\ UNCHANGED OtherVars

UploadNext ==
    \/ \E session \in Sessions, id \in Named(db.courses), form \in UploadForms,
          created \in BOOLEAN : CourseUploadForm(session, id, form, created)
    \/ \E task \in db.tasks, stored \in BOOLEAN, completed \in BOOLEAN :
          BackgroundTask(task, stored, completed)
    \/ SendResponse

UploadSpec == ApiInit /\ [][UploadNext]_vars

-----------------------------------------------------------------------------
(* POST /api/courses/[id]/chat for a general chat, await by await, with    *)
(* several requests of the course's owner in flight                        *)

CreationIds == 1..MaxRequests
NoCreation == [pc |-> "none"]
GeneralTitle == <<"General Chat - ", "course">>
GivenTitle == <<"My chat">>

\* bodies with type general: with or without a title, forceNew or not
GeneralChatBodies == [title : {<<>>, GivenTitle}, forceNew : BOOLEAN]

\* chat.findFirst({ where: { courseId, userId, type: "general" } })
ExistingGeneral(chats) == {ch \in chats : ch.type = "general"}

\* chat.findFirst({ where: { courseId, userId, title } })
ExistingTitled(chats, title) == {ch \in chats : ch.title = title}

\* the request arrives: session and course are found
ReceiveCreation(q, body) ==
    /\ api[q] = NoCreation
    /\ \A earlier \in 1..(q - 1) : api[earlier] # NoCreation
    /\ api' = [api EXCEPT ![q] = [pc |-> "find general", body |-> body,
                                  status |-> 0, chat |-> Missing, created |-> FALSE]]
    /\ UNCHANGED <<docVars, chatVars, db, assistant, call>>

\* if (type === "general" && !forceNew): return the existing general chat
FindGeneral(q) ==
    /\ api[q] # NoCreation
    /\ api[q].pc = "find general"
    /\ IF ~api[q].body.forceNew /\ ExistingGeneral(db.chats) # {}
       THEN \E ch \in ExistingGeneral(db.chats) :
               api' = [api EXCEPT ![q].pc = "responded", ![q].status = 200, ![q].chat = ch.id]
       ELSE api' = [api EXCEPT ![q].pc = "find titled"]
    /\ UNCHANGED <<docVars, chatVars, db, assistant, call>>

\* if (chatTitle && !forceNew): return the chat with that title; else the
\* title of a general chat is made up
FindTitled(q) ==
    /\ api[q] # NoCreation
    /\ api[q].pc = "find titled"
    /\ LET body == api[q].body
       IN  IF body.title # <<>> /\ ~body.forceNew
           THEN IF ExistingTitled(db.chats, body.title) # {}
                THEN \E ch \in ExistingTitled(db.chats, body.title) :
                        api' = [api EXCEPT ![q].pc = "responded", ![q].status = 200,
                                           ![q].chat = ch.id]
                ELSE api' = [api EXCEPT ![q].pc = "create"]
           ELSE api' = [api EXCEPT ![q].pc = "create",
                                   ![q].body.title = GeneralTitle]
    /\ UNCHANGED <<docVars, chatVars, db, assistant, call>>

\* chat.create and the response; `created`: the insert succeeded
CreateChat(q, created) ==
    /\ api[q] # NoCreation
    /\ api[q].pc = "create"
    /\ IF created
       THEN /\ db' = [db EXCEPT
                        !.chats = @ \cup {[id |-> db.next, type |-> "general",
                                           title |-> api[q].body.title]},
                        !.next = @ + 1]
            /\ api' = [api EXCEPT ![q].pc = "responded", ![q].status = 200,
                                  ![q].created = TRUE, ![q].chat = db.next]
       ELSE /\ api' = [api EXCEPT ![q].pc = "responded", ![q].status = 500]
            /\ UNCHANGED db
    /\ UNCHANGED <<docVars, chatVars, assistant, call>>

\* a user and a course with no chat
CreationInit ==
    /\ DocInit
    /\ ChatIdle
    /\ call = NoCall
    /\ assistant = [pc |-> "none"]
    /\ db = [exists |-> TRUE, chats |-> {}, next |-> 1]
    /\ api = [q \in CreationIds |-> NoCreation]

CreationNext ==
    \/ \E q \in CreationIds, body \in GeneralChatBodies : ReceiveCreation(q, body)
    \/ \E q \in CreationIds : FindGeneral(q)
    \/ \E q \in CreationIds : FindTitled(q)
    \/ \E q \in CreationIds, created \in BOOLEAN : CreateChat(q, created)

CreationSpec == CreationInit /\ [][CreationNext]_vars

-----------------------------------------------------------------------------
(* cancelAllActiveRuns, while the runs it looks at move on remotely.       *)
(* processPdfWithAssistant creates one thread per call and at most one run *)
(* on it, so a tracked thread has no run or one run.                       *)

Threads == 1..MaxThreads
NoRunYet == "none"
RunStatuses == {"queued", "in_progress", "requires_action", "completed", "failed"}
ActiveStatuses == {"in_progress", "queued"}

\* every order in which Object.entries can hand out the tracked threads
Orders(tracked) ==
    {entries \in [1..Cardinality(tracked) -> tracked] :
        \A i, j \in 1..Cardinality(tracked) : i # j => entries[i] # entries[j]}

AbortLoop(entries) == <<>>

\* the catch inside the for loop: the loop goes on with the next thread
CatchOnThread(entries) == Tail(entries)

\* cancelAllActiveRuns is called: Object.entries(activeThreads) is taken
CancelAllActiveRuns ==
    /\ assistant.pc = "idle"
    /\ \E entries \in Orders(assistant.activeThreads) :
          assistant' = [assistant EXCEPT !.pc = "list", !.entries = entries,
                                         !.snapshot = assistant.activeThreads]
    /\ UNCHANGED <<docVars, chatVars, apiVars, call>>

\* openai.beta.threads.runs.list(threadId) for the next thread
ListRuns(listed) ==
    /\ assistant.pc = "list"
    /\ assistant.entries # <<>>
    /\ LET threadId == Head(assistant.entries)
           run == assistant.status[threadId]
       IN  assistant' =
             IF listed
             THEN [assistant EXCEPT !.pc = "cancel",
                                    !.visited = @ \cup {threadId},
                                    !.listed[threadId] = run,
                                    !.data = IF run = NoRunYet THEN <<>> ELSE <<run>>]
             ELSE [assistant EXCEPT !.visited = @ \cup {threadId},
                                    !.listed[threadId] = "error",
                                    !.entries = CatchOnThread(@)]
    /\ UNCHANGED <<docVars, chatVars, apiVars, call>>

\* one turn of for (const run of runs.data): cancel it if its listed status
\* is in_progress or queued; the remote side refuses a run that has ended
CancelRun(cancelled) ==
    /\ assistant.pc = "cancel"
    /\ LET threadId == Head(assistant.entries)
       IN  IF assistant.data = <<>>
           THEN assistant' = [assistant EXCEPT !.pc = "list", !.entries = Tail(@)]
           ELSE IF Head(assistant.data) \notin ActiveStatuses
           THEN assistant' = [assistant EXCEPT !.data = Tail(@)]
           ELSE IF cancelled /\ assistant.status[threadId] \notin {"completed", "failed"}
           THEN assistant' = [assistant EXCEPT !.data = Tail(@),
                                               !.cancelCalled = @ \cup {threadId},
                                               !.status[threadId] = "cancelled"]
           ELSE assistant' = [assistant EXCEPT !.pc = "list",
                                               !.cancelCalled = @ \cup {threadId},
                                               !.entries = CatchOnThread(@)]
    /\ UNCHANGED <<docVars, chatVars, apiVars, call>>

\* the for loop over the entries is over
CancelReturn ==
    /\ assistant.pc = "list"
    /\ assistant.entries = <<>>
    /\ assistant' = [assistant EXCEPT !.pc = "returned"]
    /\ UNCHANGED <<docVars, chatVars, apiVars, call>>

\* the run of a thread moves on at OpenAI
RunProgress(threadId, status) ==
    /\ assistant.pc \in {"idle", "list", "cancel"}
    /\ \/ assistant.status[threadId] = "queued" /\ status = "in_progress"
       \/ assistant.status[threadId] = "in_progress"
            /\ status \in {"requires_action", "completed", "failed"}
    /\ assistant' = [assistant EXCEPT !.status[threadId] = status]
    /\ UNCHANGED <<docVars, chatVars, apiVars, call>>

\* a processPdfWithAssistant call whose run completed drops its thread
Untrack(threadId) ==
    /\ assistant.pc \in {"idle", "list", "cancel"}
    /\ threadId \in assistant.activeThreads
    /\ assistant.status[threadId] = "completed"
    /\ assistant' = [assistant EXCEPT !.activeThreads = @ \ {threadId}]
    /\ UNCHANGED <<docVars, chatVars, apiVars, call>>

CancelInit ==
    /\ DocInit
    /\ ChatIdle
    /\ call = NoCall
    /\ db = [exists |-> FALSE]
    /\ api = [route |-> "none"]
    /\ \E tracked \in SUBSET Threads, status \in [Threads -> RunStatuses \cup {NoRunYet}] :
          assistant = [pc |-> "idle", activeThreads |-> tracked, status |-> status,
                       snapshot |-> {}, entries |-> <<>>, visited |-> {},
                       listed |-> [t \in Threads |-> "unlisted"], data |-> <<>>,
                       cancelCalled |-> {}]

CancelNext ==
    \/ CancelAllActiveRuns
    \/ \E listed \in BOOLEAN : ListRuns(listed)
    \/ \E cancelled \in BOOLEAN : CancelRun(cancelled)
    \/ CancelReturn
    \/ \E threadId \in Threads, status \in RunStatuses : RunProgress(threadId, status)
    \/ \E threadId \in Threads : Untrack(threadId)

CancelSpec == CancelInit /\ [][CancelNext]_vars

-----------------------------------------------------------------------------
(* The run-status loop of processPdfWithAssistant, in seconds of Date.now() *)

MaxWaitTime == 1800
PollInterval == 5
Latencies == {0, PollInterval}
RemoteStatuses == {"queued", "in_progress", "completed", "failed", "cancelled", "expired"}

\* checkRunStatus: the status retrieved, or failed when the lookup throws
CheckRunStatus(remote, retrieved) == IF retrieved THEN remote ELSE "failed"

LoopWithoutTimeout(status, elapsed) == status # "completed" /\ status # "failed"

\* the while condition
KeepPolling(status, elapsed) ==
    status # "completed" /\ status # "failed" /\ elapsed < MaxWaitTime

\* what messages.list can return for the thread
ThreadMessages ==
    { <<>>,
      <<[role |-> "user", content |-> <<[type |-> "text", value |-> <<"alpha">>]>>]>>,
      <<[role |-> "assistant", content |-> <<[type |-> "image", value |-> <<>>]>>]>>,
      <<[role |-> "assistant", content |-> <<[type |-> "text", value |-> <<" ">>]>>]>>,
      <<[role |-> "user", content |-> <<[type |-> "text", value |-> <<"alpha">>]>>],
        [role |-> "assistant", content |-> <<[type |-> "text", value |-> <<"hello">>],
                                             [type |-> "image", value |-> <<>>]>>],
        [role |-> "assistant", content |-> <<[type |-> "text", value |-> <<" beta">>]>>]>> }

Blank == {" ", "\n\n"}

RECURSIVE TrimStart(_)
TrimStart(text) ==
    IF text # <<>> /\ Head(text) \in Blank THEN TrimStart(Tail(text)) ELSE text

RECURSIVE TrimEnd(_)
TrimEnd(text) ==
    IF text # <<>> /\ text[Len(text)] \in Blank
    THEN TrimEnd(SubSeq(text, 1, Len(text) - 1)) ELSE text

RECURSIVE TextOfContent(_)
TextOfContent(content) ==
    IF content = <<>> THEN <<>>
    ELSE (IF Head(content).type = "text" THEN Head(content).value \o <<"\n\n">> ELSE <<>>)
         \o TextOfContent(Tail(content))

\* extractedText before it is trimmed: the text parts of the assistant
\* messages, each followed by a blank line
RECURSIVE ExtractedText(_)
ExtractedText(threadMessages) ==
    IF threadMessages = <<>> THEN <<>>
    ELSE (IF Head(threadMessages).role = "assistant"
          THEN TextOfContent(Head(threadMessages).content) ELSE <<>>)
         \o ExtractedText(Tail(threadMessages))

\* runStatus = await checkRunStatus(thread.id, run.id), then the while test
Poll(retrieved, latency) ==
    /\ assistant.pc = "check"
    /\ LET status == CheckRunStatus(assistant.remote, retrieved)
           elapsed == assistant.elapsed + latency
       IN  assistant' = [assistant EXCEPT
                            !.runStatus = status,
                            !.elapsed = elapsed,
                            !.retrieved = retrieved,
                            !.pc = IF KeepPolling(status, elapsed) THEN "wait" ELSE "done"]
    /\ UNCHANGED <<docVars, chatVars, apiVars, call>>

\* await new Promise(resolve => setTimeout(resolve, 5000))
Wait ==
    /\ assistant.pc = "wait"
    /\ assistant' = [assistant EXCEPT !.elapsed = @ + PollInterval, !.pc = "check"]
    /\ UNCHANGED <<docVars, chatVars, apiVars, call>>

\* after the loop: throw unless completed, else list the messages and
\* return their text
AfterLoop(listed, threadMessages) ==
    /\ assistant.pc = "done"
    /\ LET result == IF assistant.runStatus = "completed" /\ ~listed
                     THEN Threw(<<"messages.list failed">>)
                     ELSE ProcessPdfWithAssistant(
                              [status |-> assistant.runStatus,
                               text |-> TrimEnd(TrimStart(ExtractedText(threadMessages)))])
       IN  assistant' = [assistant EXCEPT
                            !.pc = IF result.threw THEN "threw" ELSE "returned",
                            !.messages = threadMessages,
                            !.result = result.text]
    /\ UNCHANGED <<docVars, chatVars, apiVars, call>>

\* the run moves on at OpenAI, or does not
RemoteProgress(status) ==
    /\ assistant.pc \in {"check", "wait"}
    /\ \/ assistant.remote = "queued" /\ status \in {"in_progress", "cancelled", "expired"}
       \/ assistant.remote = "in_progress"
            /\ status \in {"completed", "failed", "cancelled", "expired"}
    /\ assistant' = [assistant EXCEPT !.remote = status]
    /\ UNCHANGED <<docVars, chatVars, apiVars, call>>

PollInit ==
    /\ DocInit
    /\ ChatIdle
    /\ call = NoCall
    /\ db = [exists |-> FALSE]
    /\ api = [route |-> "none"]
    /\ assistant = [pc |-> "check", remote |-> "queued", runStatus |-> "none",
                    elapsed |-> 0, retrieved |-> TRUE, messages |-> <<>>, result |-> <<>>]

PollNext ==
    \/ \E retrieved \in BOOLEAN, latency \in Latencies : Poll(retrieved, latency)
    \/ Wait
    \/ \E listed \in BOOLEAN, threadMessages \in ThreadMessages :
          AfterLoop(listed, threadMessages)
    \/ \E status \in RemoteStatuses : RemoteProgress(status)

\* every await of the loop comes back: the timer fires, and the SDK call
\* resolves or rejects; nothing makes the run itself move
PollStep ==
    \/ \E retrieved \in BOOLEAN, latency \in Latencies : Poll(retrieved, latency)
    \/ Wait
    \/ \E listed \in BOOLEAN, threadMessages \in ThreadMessages :
          AfterLoop(listed, threadMessages)

PollSpec == PollInit /\ [][PollNext]_vars /\ WF_vars(PollStep)

-----------------------------------------------------------------------------
(* lib/assistantService.ts: processPdfWithAssistant calls and the          *)
(* activeThreads map they share. Call c creates thread c.                  *)

Untracked == 0
NoPdfCall == [pc |-> "none"]

\* from the entry of processPdfWithAssistant to files.create: the temp file
\* of the document is written; `uploaded`: getPdfAssistant, the download and the
\* file upload all succeeded. A failure goes through the finally, which
\* removes the temp file.
StartPdfCall(c, documentId, uploaded) ==
    /\ assistant.calls[c] = NoPdfCall
    /\ \A earlier \in 1..(c - 1) : assistant.calls[earlier] # NoPdfCall
    /\ assistant' =
          IF uploaded
          THEN [assistant EXCEPT !.calls[c] = [pc |-> "uploaded", documentId |-> documentId,
                                               status |-> "none", result |-> <<>>],
                                 !.tempFile[documentId] = TRUE]
          ELSE [assistant EXCEPT !.calls[c] = [pc |-> "threw", documentId |-> documentId,
                                               status |-> "none", result |-> <<>>],
                                 !.tempFile[documentId] = FALSE]
    /\ UNCHANGED <<docVars, chatVars, apiVars, call>>

\* threads.create, then activeThreads[document.id] = thread.id
TrackThread(c) ==
    /\ assistant.calls[c] # NoPdfCall
    /\ assistant.calls[c].pc = "uploaded"
    /\ assistant' = [assistant EXCEPT
                        !.calls[c].pc = "running",
                        !.activeThreads[assistant.calls[c].documentId] = c]
    /\ UNCHANGED <<docVars, chatVars, apiVars, call>>

\* the entry of the document after the clean-up block of a call that got its
\* text: unlinkSync throws when the temp file is gone, and the catch skips
\* the delete
AfterCleanup(entry, tempFile) == IF tempFile THEN Untracked ELSE entry

\* the run-status loop has ended with `outcome`: a throw leaves the map as it
\* is; the finally removes the temp file if it is still there
EndPdfCall(c, outcome) ==
    /\ assistant.calls[c] # NoPdfCall
    /\ assistant.calls[c].pc = "running"
    /\ LET documentId == assistant.calls[c].documentId
           result == ProcessPdfWithAssistant(outcome)
       IN  assistant' =
             IF result.threw
             THEN [assistant EXCEPT !.calls[c].pc = "threw",
                                    !.calls[c].status = outcome.status,
                                    !.calls[c].result = result.text,
                                    !.tempFile[documentId] = FALSE]
             ELSE [assistant EXCEPT
                     !.calls[c].pc = "returned",
                     !.calls[c].status = outcome.status,
                     !.calls[c].result = result.text,
                     !.activeThreads[documentId] =
                         AfterCleanup(@, assistant.tempFile[documentId]),
                     !.tempFile[documentId] = FALSE]
    /\ UNCHANGED <<docVars, chatVars, apiVars, call>>

TrackInit ==
    /\ DocInit
    /\ ChatIdle
    /\ call = NoCall
    /\ db = [exists |-> FALSE]
    /\ api = [route |-> "none"]
    /\ assistant = [calls |-> [c \in Threads |-> NoPdfCall],
                    activeThreads |-> [d \in DocIds |-> Untracked],
                    tempFile |-> [d \in DocIds |-> FALSE]]

TrackNext ==
    \/ \E c \in Threads, documentId \in DocIds, uploaded \in BOOLEAN :
          StartPdfCall(c, documentId, uploaded)
    \/ \E c \in Threads : TrackThread(c)
    \/ \E c \in Threads, outcome \in AssistantOutcomes : EndPdfCall(c, outcome)

TrackSpec == TrackInit /\ [][TrackNext]_vars

-----------------------------------------------------------------------------
(* extractText on its own: one call on any document, with what it fetched  *)

StoredContents ==
    {<<>>, LongText, PdfText, BarePlaceholder, BracketedPlaceholder, UploadPlaceholder,
     BracketErrorText, ErrorMarker(NoSourceError)}

ExtractedDocuments ==
    [id : {1}, type : {"text", "url", "pdf"}, content : StoredContents,
     url : BOOLEAN, buffer : BOOLEAN]

\* the pdf case runs axios.get(document.url) when it has no buffer but a url
DownloadsPdf(document) ==
    document.type = "pdf" /\ ~document.buffer /\ document.url

\* the pdf case reaches processPdfWithAssistant when it has a buffer
CallsAssistant(document, world) ==
    /\ document.type = "pdf"
    /\ \/ document.buffer
       \/ document.url /\ world.fetchOk

ExtractCall ==
    /\ call.pc = "extract"
    /\ call' = [call EXCEPT
                  !.pc = "returned",
                  !.text = ExtractText(call.document, call.world, call.docExists).text,
                  !.downloaded = DownloadsPdf(call.document),
                  !.assistantCalled = CallsAssistant(call.document, call.world)]
    /\ UNCHANGED <<docVars, chatVars, apiVars, assistant>>

ExtractInit ==
    /\ DocInit
    /\ ChatIdle
    /\ ApiIdle
    /\ \E document \in ExtractedDocuments, world \in Worlds, docExists \in BOOLEAN :
          call = [pc |-> "extract", document |-> document, world |-> world,
                  docExists |-> docExists, text |-> <<>>, downloaded |-> FALSE,
                  assistantCalled |-> FALSE]

ExtractNext == ExtractCall

ExtractSpec == ExtractInit /\ [][ExtractNext]_vars

-----------------------------------------------------------------------------
(* Properties of the document pipeline                                     *)

Created(id) == id < nextDocId
RowsOf(id) == SelectSeq(vectorStore, LAMBDA v : v.documentId = id)
IsErrorMarkerContent(content) ==
    /\ content # <<>>
    /\ content[Len(content)] = "]"
    /\ Includes(content, <<"[", "PROCESSING">>)

C2_SearchOnlyProcessedOfCourse ==
    /\ [](search.pc = "done" =>
            \A k \in 1..Len(search.results) :
                LET id == search.results[k].documentId
                IN  /\ id \in search.documentIds
                    /\ (Exists(documents, id) => documents[id].courseId = search.courseId))
    /\ [][search.pc = "vectors" /\ search'.pc = "done" =>
            \A k \in 1..Len(search'.results) :
                \E v \in 1..Len(vectorStore) :
                    /\ vectorStore[v].documentId = search'.results[k].documentId
                    /\ vectorStore[v].chunk = search'.results[k].chunk]_vars
    /\ [][search.pc = "idle" /\ search'.pc # "idle" =>
            \A id \in DocIds :
                id \in search'.documentIds
                <=> /\ Exists(documents, id)
                    /\ documents[id].processed
                    /\ documents[id].courseId = search'.courseId]_vars

C2_Witness ==
    /\ search.pc = "done"
    /\ search.results # <<>>
    /\ \A k \in 1..Len(search.results) :
          documents[search.results[k].documentId].processed

\* C3: a deleted document has no VectorStore row, at the moment the delete
\* succeeds and ever after, also while one of its processing runs is still in
\* its chunk loop.
C3_NoRowsOfDeletedDocument ==
    \A id \in DocIds :
        Created(id) /\ ~Exists(documents, id) => RowsOf(id) = <<>>

C3_Witness ==
    \E id \in DocIds :
        /\ Created(id) /\ ~Exists(documents, id)
        /\ Live(<<id, "task">>)
        /\ runs[<<id, "task">>].pc = "mark"
        /\ runs[<<id, "task">>].outcomes = <<TRUE, FALSE>>

\* the ways the claim lists for PDF extraction to fail
ExtractionFails(document, world) ==
    \/ ~document.buffer /\ document.url /\ ~world.fetchOk
    \/ world.assistant.status # "completed"
    \/ world.assistant.text = <<>>

IsBracketed(text) == text # <<>> /\ Head(text) = "[" /\ text[Len(text)] = "]"

HasMarkerText(chunk) ==
    \/ Includes(chunk, <<"Error", " processing PDF">>)
    \/ Includes(chunk, <<"PROCESSING">>)

UploadedDocument == Snapshot(1, [type |-> "pdf", content |-> UploadPlaceholder, url |-> FALSE], TRUE)
LinkedDocument == Snapshot(1, [type |-> "pdf", content |-> <<>>, url |-> TRUE], FALSE)

\* extractText on an uploaded or linked PDF whose extraction fails returns a
\* bracketed marker (it does not throw or store), and splitIntoChunks rejects it
FailedExtractionYieldsMarker ==
    \A document \in {UploadedDocument, LinkedDocument}, world \in Worlds :
        ExtractionFails(document, world) =>
            LET e == ExtractText(document, world, TRUE)
            IN  /\ IsBracketed(e.text)
                /\ Includes(e.text, <<"Error", " processing PDF">>)
                /\ ~e.store
                /\ SplitIntoChunks(e.text).threw

\* C8: a failed PDF extraction yields the bracketed [Error processing PDF: ...]
\* marker, which the chunker rejects; the upload task then leaves the document
\* processed = true with a bracketed [PROCESSING ERROR: ...] content that the
\* code's own test tells from real text, and no row holds text of a marker.
C8_FailedExtractionEndsInMarker ==
    /\ FailedExtractionYieldsMarker
    /\ \A r \in RunIds :
          Live(r) /\ runs[r].origin = "upload" /\ runs[r].pc = "threw"
                  /\ runs[r].error = ChunkerError
          => runs[r].chunks = <<>> /\ runs[r].outcomes = <<>>
    /\ \A id \in DocIds :
          Exists(documents, id) /\ documents[id].route = "upload" =>
             /\ documents[id].task = "threw" =>
                   /\ documents[id].processed
                   /\ IsBracketed(documents[id].content)
                   /\ Includes(documents[id].content, <<"[", "PROCESSING">>)
                   /\ ~LooksProcessed(documents[id].content)
             /\ \A k \in 1..Len(RowsOf(id)) : ~HasMarkerText(RowsOf(id)[k].chunk)

C8_Witness ==
    \E id \in DocIds :
        /\ Exists(documents, id) /\ documents[id].route = "upload"
        /\ documents[id].task = "threw"
        /\ documents[id].content = <<"[", "PROCESSING", " ERROR: ">> \o ChunkerError \o <<"]">>
        /\ RowsOf(id) = <<>>

\* C9: in the chunk loop every chunk is tried once, in order; a chunk whose
\* embedding or insert fails adds no row and the loop goes on; a chunk that
\* succeeds adds exactly its row; after the last chunk the document is set to
\* processed = true.
C9_FailedChunkIsSkipped ==
    /\ [](\A r \in RunIds : Live(r) =>
            /\ Len(runs[r].outcomes) <= Len(runs[r].chunks)
            /\ runs[r].pc = "embed" => Len(runs[r].outcomes) < Len(runs[r].chunks)
            /\ runs[r].chunks # <<>> /\ runs[r].pc \in {"mark", "returned", "threw"}
               => Len(runs[r].outcomes) = Len(runs[r].chunks)
            /\ runs[r].chunks # <<>> /\ runs[r].pc = "threw"
               => ~Exists(documents, runs[r].document.id))
    /\ [][\A r \in RunIds :
            /\ (Live(r) /\ runs[r].pc = "embed" /\ runs'[r] # runs[r]) =>
                  LET k == Len(runs[r].outcomes) + 1
                      row == [documentId |-> runs[r].document.id,
                              chunk |-> runs[r].chunks[k],
                              embedding |-> JsonStringify(EmbedQuery(runs[r].chunks[k]))]
                  IN  /\ Len(runs'[r].outcomes) = k
                      /\ SubSeq(runs'[r].outcomes, 1, k - 1) = runs[r].outcomes
                      /\ runs'[r].pc = IF k = Len(runs[r].chunks) THEN "mark" ELSE "embed"
                      /\ vectorStore' = IF runs'[r].outcomes[k]
                                        THEN Append(vectorStore, row) ELSE vectorStore
            /\ (Live(r) /\ runs[r].pc = "mark" /\ runs'[r].pc = "returned") =>
                  documents'[runs[r].document.id].processed]_vars

C9_Witness ==
    \E r \in RunIds :
        /\ Live(r) /\ runs[r].pc = "returned"
        /\ runs[r].outcomes = <<FALSE, TRUE>>
        /\ documents[runs[r].document.id].processed
        /\ Len(RowsOf(runs[r].document.id)) = 1
        /\ RowsOf(runs[r].document.id)[1].chunk = runs[r].chunks[2]

Stored(outcomes) == Len(SelectSeq(outcomes, LAMBDA b : b))
IsTextRun(r) ==
    Live(r) /\ runs[r].document.type = "text" /\ runs[r].document.content # <<>>
Undisturbed(id) == Exists(documents, id) /\ id \notin deleting

\* C10 as stated: once processDocument has ended on a text document with
\* non-empty content, the document is processed and has at least one row.
C10_TextDocumentGetsRow ==
    \A r \in RunIds :
        /\ IsTextRun(r) /\ runs[r].pc \in {"returned", "threw"}
        /\ Undisturbed(runs[r].document.id)
        => /\ documents[runs[r].document.id].processed
           /\ RowsOf(runs[r].document.id) # <<>>

\* C10, amended: processDocument on a text document with non-empty content
\* throws, adding no row, when the chunker rejects the content as a
\* placeholder; otherwise it splits the content into at least one chunk, sets
\* processed = true, and the document has at least as many rows as chunks
\* whose embedding and insert succeeded (none when all failed).
C10_TextDocumentRowsPerStoredChunk ==
    \A r \in RunIds : IsTextRun(r) =>
        LET run == runs[r]
            id == run.document.id
        IN  /\ run.pc = "threw" /\ run.error = ChunkerError
               => /\ IsPlaceholderText(run.document.content)
                  /\ run.chunks = <<>> /\ run.outcomes = <<>>
            /\ run.pc \in {"embed", "mark", "returned"}
               => /\ ~IsPlaceholderText(run.document.content)
                  /\ run.chunks = SplitText(run.document.content)
                  /\ Len(run.chunks) >= 1
            /\ run.pc \in {"mark", "returned"} /\ Undisturbed(id)
               => Len(RowsOf(id)) >= Stored(run.outcomes)
            /\ run.pc = "returned" /\ Exists(documents, id)
               => documents[id].processed

C10_Witness ==
    \E r \in RunIds :
        /\ IsTextRun(r) /\ runs[r].pc = "returned"
        /\ Stored(runs[r].outcomes) >= 1
        /\ documents[runs[r].document.id].processed
        /\ Len(RowsOf(runs[r].document.id)) >= 1

-----------------------------------------------------------------------------
(* Properties of send-message                                              *)

Responded(s) == sends[s].pc = "responded"

\* the `take` most recent rows, oldest first
LastMessages(rows, take) ==
    SubSeq(rows, IF Len(rows) > take THEN Len(rows) - take + 1 ELSE 1, Len(rows))

\* C4: a request with enableCitations = false collects no citation whatever
\* the search retrieved, answers 200, and both the message it persists and the
\* message it returns carry an empty citations list.
C4_NoCitationsWhenDisabled ==
    \A s \in SendIds :
        /\ sends[s].pc # "idle"
        /\ sends[s].options # NoOptions
        /\ ~sends[s].options.enableCitations
        => /\ sends[s].citations = <<>>
           /\ Responded(s) =>
                /\ sends[s].response.status = 200
                /\ sends[s].response.citations = <<>>
                /\ sends[s].response.id \in 1..Len(messages)
                /\ messages[sends[s].response.id].role = "assistant"
                /\ messages[sends[s].response.id].citations = <<>>

C4_Witness ==
    \E s \in SendIds :
        /\ Responded(s)
        /\ sends[s].options # NoOptions
        /\ ~sends[s].options.enableCitations
        /\ sends[s].searchResults # <<>>
        /\ sends[s].completion = "ok"
        /\ messages[sends[s].response.id].citations = <<>>

\* C5: a request whose completion call failed goes on to persist: its assistant
\* content is the fixed apologetic text, and once it has answered, the answer
\* is a 200 with that text and no error, and the chat holds the assistant
\* message with that text after the request's user message.
C5_CompletionFailureGivesApology ==
    \A s \in SendIds :
        sends[s].pc # "idle" /\ sends[s].completion = "failed"
        => /\ sends[s].pc \in {"persist", "responded"}
           /\ sends[s].assistantContent = Apology
           /\ Responded(s) =>
                /\ sends[s].response.status = 200
                /\ "error" \notin DOMAIN sends[s].response
                /\ sends[s].response.content = Apology
                /\ sends[s].response.id \in (sends[s].userMessageId + 1)..Len(messages)
                /\ messages[sends[s].userMessageId].role = "user"
                /\ messages[sends[s].userMessageId].content = sends[s].message
                /\ messages[sends[s].response.id].role = "assistant"
                /\ messages[sends[s].response.id].content = Apology

C5_Witness ==
    \E s \in SendIds :
        /\ Responded(s)
        /\ sends[s].completion = "failed"
        /\ sends[s].response.status = 200
        /\ messages[sends[s].response.id].content = Apology

\* C6: the history a request reads is the HistoryTake most recent messages of
\* the chat, and the prompt holds exactly that history between the system
\* message and the current user message.
C6_HistoryIsLastTen ==
    [][\A s \in SendIds :
          /\ sends[s].pc = "history" /\ sends'[s].pc # "history"
                => sends'[s].chatHistory = LastMessages(messages, HistoryTake)
          /\ sends[s].pc = "search" /\ sends'[s].pc = "complete"
                => SubSeq(sends'[s].formattedMessages, 2,
                          Len(sends'[s].formattedMessages) - 1)
                   = FormatHistory(sends[s].chatHistory)]_vars

-----------------------------------------------------------------------------
(* Properties of the chunker                                               *)

HasKnownMarker(text) ==
    \/ Includes(text, <<"PDF Content from">>)
    \/ Includes(text, <<"would be processed">>)
    \/ Includes(text, <<"Failed to download">>)
    \/ Includes(text, <<"Error", " processing PDF">>)

\* C7: a call of the chunker on a text that contains one of the known
\* placeholder or error markers ends in the explicit error and yields no chunk.
C7_MarkedTextIsRejected ==
    call.pc \in {"returned", "threw"} /\ HasKnownMarker(call.text)
        => call.pc = "threw" /\ call.chunks = <<>>

-----------------------------------------------------------------------------
(* Properties of semantic search                                           *)

\* the rows a search of the course is to rank: those of its processed documents
CandidateRows(courseId) ==
    SelectSeq(vectorStore,
        LAMBDA v : /\ documents[v.documentId] # NoDoc
                   /\ documents[v.documentId].courseId = courseId
                   /\ documents[v.documentId].processed)

SimilarityTo(query, row) ==
    CalculateCosineSimilarity(EmbedQuery(query), JsonParse(row.embedding))

\* C11: a search that ranks returns min(limit, number of candidate rows)
\* results in non-increasing similarity, each a different candidate row with its
\* similarity, and no candidate left out is more similar than one returned;
\* over a store of two rows embedded [1, 0] and [0, 1], a query embedded [1, 0]
\* gets the first row with similarity 1 and then the second with similarity 0.
C11_TopResultsBySimilarity ==
    [][search.pc = "vectors" /\ search'.pc = "done" =>
        LET results == search'.results
            candidates == CandidateRows(search.courseId)
            returned == {results[k].chunk : k \in 1..Len(results)}
        IN  /\ Len(results) = IF Len(candidates) < search.limit
                              THEN Len(candidates) ELSE search.limit
            /\ Len(results) <= search.limit
            /\ \A k \in 1..(Len(results) - 1) :
                  results[k].similarity >= results[k + 1].similarity
            /\ Cardinality(returned) = Len(results)
            /\ \A k \in 1..Len(results) :
                  \E j \in 1..Len(candidates) :
                      /\ candidates[j].chunk = results[k].chunk
                      /\ candidates[j].documentId = results[k].documentId
                      /\ results[k].similarity = SimilarityTo(search.query, candidates[j])
            /\ \A j \in 1..Len(candidates) :
                  candidates[j].chunk \notin returned =>
                      \A k \in 1..Len(results) :
                          results[k].similarity >= SimilarityTo(search.query, candidates[j])
            /\ ( /\ Len(candidates) = 2
                 /\ JsonParse(candidates[1].embedding) = <<1, 0>>
                 /\ JsonParse(candidates[2].embedding) = <<0, 1>>
                 /\ EmbedQuery(search.query) = <<1, 0>> )
               => /\ Len(results) = 2
                  /\ results[1].chunk = candidates[1].chunk /\ results[1].similarity = 1000
                  /\ results[2].chunk = candidates[2].chunk /\ results[2].similarity = 0]_vars

C11_Witness ==
    /\ search.pc = "done"
    /\ search.limit = 2
    /\ Len(CandidateRows(search.courseId)) = 3
    /\ Len(search.results) = 2
    /\ search.results[1].similarity = 1000
    /\ search.results[2].similarity = 707
    /\ search.results[1].chunk = <<"chunk ", "3">>
    /\ search.results[1].documentId # search.results[2].documentId

\* C12: a search of a course without any processed document ends at once with
\* the empty list, whatever rows the store holds and whether or not the
\* embedding call would have worked.
C12_NoProcessedDocumentsGivesEmptyList ==
    [][/\ search.pc = "idle" /\ search'.pc # "idle"
       /\ ~\E id \in DOMAIN documents :
              /\ documents[id] # NoDoc
              /\ documents[id].courseId = search'.courseId
              /\ documents[id].processed
       => search'.pc = "done" /\ search'.results = <<>>]_vars

C12_Witness ==
    /\ search.pc = "done"
    /\ search.results = <<>>
    /\ search.courseId = "c2"
    /\ documents[2].courseId = "c2" /\ ~documents[2].processed
    /\ \E k \in 1..Len(vectorStore) : vectorStore[k].documentId = 2

-----------------------------------------------------------------------------
(* Properties of the cosine similarity                                     *)

ZeroMagnitude(vec) == \A i \in 1..Len(vec) : vec[i] = 0

\* C13: a call on two vectors of different lengths, or with a vector of zero
\* magnitude, returns 0 (the function has no other way to end than a return).
C13_ZeroForMismatchOrZeroMagnitude ==
    /\ call.pc = "returned" /\ "vecA" \in DOMAIN call
    /\ \/ Len(call.vecA) # Len(call.vecB)
       \/ ZeroMagnitude(call.vecA)
       \/ ZeroMagnitude(call.vecB)
    => call.similarity = 0

C13_Witness ==
    /\ call.pc = "returned"
    /\ call.vecA = <<1, 2>>
    /\ call.vecB = <<1>>
    /\ call.similarity = 0

-----------------------------------------------------------------------------
(* Properties of the background task                                       *)

\* C14: the step in which the create-document or PDF-upload route creates a
\* document and answers leaves the document unprocessed and without a row, its
\* timer task not yet started; the first row of a document is added by a run
\* that is past its extraction.
C14_ResponseBeforeProcessing ==
    [][\A id \in DocIds :
          /\ (~Exists(documents, id) /\ Exists(documents', id)) =>
                /\ ~documents'[id].processed
                /\ documents'[id].task = "pending"
                /\ SelectSeq(vectorStore', LAMBDA v : v.documentId = id) = <<>>
                /\ runs'[<<id, "task">>].pc = "start"
                /\ runs'[<<id, "task">>].chunks = <<>>
                /\ runs'[<<id, "task">>].outcomes = <<>>
                /\ runs'[<<id, "process">>] = NoRun
          /\ Len(SelectSeq(vectorStore', LAMBDA v : v.documentId = id)) > Len(RowsOf(id)) =>
                \E origin \in {"task", "process"} :
                    /\ Live(<<id, origin>>)
                    /\ runs[<<id, origin>>].pc = "embed"]_vars

C14_Witness ==
    \E id \in DocIds :
        /\ Exists(documents, id) /\ documents[id].route = "upload"
        /\ ~documents[id].processed
        /\ RowsOf(id) = <<>>
        /\ runs[<<id, "task">>].pc = "start"
        /\ requests = 1

\* C15: a POST /process that starts a run leaves the rows of the document in
\* place, also while the timer task of the document is running; each run only
\* appends; so while both runs of a document are in flight the document holds
\* a row for every chunk either of them stored, the same chunk twice when both
\* stored it.
C15_OverlappingRunsBothInsert ==
    /\ [](\A id \in DocIds :
            /\ Undisturbed(id)
            /\ Live(<<id, "task">>) /\ Live(<<id, "process">>)
            => Len(RowsOf(id)) >= Stored(runs[<<id, "task">>].outcomes)
                                  + Stored(runs[<<id, "process">>].outcomes))
    /\ [][\A id \in DocIds :
            /\ (~Live(<<id, "process">>) /\ runs'[<<id, "process">>] # NoRun)
                  => vectorStore' = vectorStore
            /\ \A origin \in {"task", "process"} :
                  (Live(<<id, origin>>) /\ runs'[<<id, origin>>] # runs[<<id, origin>>])
                  => /\ Len(vectorStore') >= Len(vectorStore)
                     /\ SubSeq(vectorStore', 1, Len(vectorStore)) = vectorStore]_vars

C15_Witness ==
    \E id \in DocIds :
        /\ Exists(documents, id)
        /\ Live(<<id, "task">>) /\ Live(<<id, "process">>)
        /\ runs[<<id, "task">>].outcomes = <<TRUE, TRUE>>
        /\ runs[<<id, "process">>].outcomes = <<TRUE, TRUE>>
        /\ Len(RowsOf(id)) = 4
        /\ \E j, k \in 1..4 : j # k /\ RowsOf(id)[j].chunk = RowsOf(id)[k].chunk


-----------------------------------------------------------------------------
(* Properties of the API routes                                            *)

NamesCourse ==
    {"GET /api/courses/[id]", "PATCH /api/courses/[id]", "DELETE /api/courses/[id]",
     "GET /api/courses/[id]/documents", "POST /api/courses/[id]/documents",
     "POST /api/courses/[id]/upload", "POST /api/courses/[id]/chat",
     "GET /api/courses/[id]/chat"}
NamesDocument ==
    {"GET /api/documents/[id]", "DELETE /api/documents/[id]",
     "POST /api/documents/[id]/process", "GET /api/documents/[id]/file"}
NamesChat ==
    {"GET /api/chat/[id]", "POST /api/chat/[id]", "DELETE /api/chat/[id]",
     "DELETE /api/chat/[id]/empty", "GET /api/chat/[id]/messages"}
ValidatesBeforeLookup ==
    {"PATCH /api/courses/[id]", "POST /api/courses/[id]/documents", "POST /api/chat/[id]"}

IsRequest(r) == r.route \notin {"none", "setTimeout callback"}
Unauthenticated(r) == IsRequest(r) /\ r.session = NoSession

\* the request names a course, chat or document that is not in the store or
\* is owned by somebody else
Inaccessible(store, r) ==
    /\ IsRequest(r)
    /\ r.session # NoSession
    /\ \/ /\ r.route \in NamesCourse
          /\ ~\E c \in store.courses : c.id = r.id /\ c.userId = r.session
       \/ /\ r.route \in NamesDocument
          /\ ~\E d \in store.documents, c \in store.courses :
                 d.id = r.id /\ c.id = d.courseId /\ c.userId = r.session
       \/ /\ r.route \in NamesChat
          /\ ~\E ch \in store.chats : ch.id = r.id /\ ch.userId = r.session

NothingGivenOrChanged == api'.data = {} /\ db' = db

\* C16 as stated: every route answers an unauthenticated request with 401,
\* and a request naming a missing or foreign course, chat or document with
\* 403 or 404, giving no data and changing nothing.  GET /api/test reads no
\* session, and three routes answer 400 for an invalid body before they
\* look the resource up.
C16_EveryRouteRefuses ==
    [][/\ Unauthenticated(api') => api'.status = 401 /\ NothingGivenOrChanged
       /\ Inaccessible(db, api') => api'.status \in {403, 404} /\ NothingGivenOrChanged]_vars

\* C16: every route that reads the session answers an unauthenticated
\* request with 401; a signed-in request naming a course, chat or document
\* that is missing or owned by somebody else is answered 403 or 404, or 400
\* when the route validates the body first and the body is invalid; in all
\* these cases the response carries no row and the store is unchanged.
C16_SessionRoutesRefuse ==
    [][/\ Unauthenticated(api') /\ api'.route # "GET /api/test"
            => api'.status = 401 /\ NothingGivenOrChanged
       /\ Inaccessible(db, api')
            => /\ \/ api'.status \in {403, 404}
                  \/ /\ api'.status = 400
                     /\ api'.route \in ValidatesBeforeLookup
                     /\ ~api'.valid
               /\ NothingGivenOrChanged]_vars

\* u1 asked to delete u2's course and got 403; the course is still there
C16_Witness ==
    /\ db.exists
    /\ api.route = "DELETE /api/courses/[id]"
    /\ api.session = "u1"
    /\ api.id = 2
    /\ api.status = 403
    /\ 2 \in Ids(db.courses)

ReferentialIntegrity ==
    db.exists =>
        /\ \A d \in db.documents : d.courseId \in Ids(db.courses)
        /\ \A v \in db.vectors : v.documentId \in Ids(db.documents)
        /\ \A ch \in db.chats : ch.courseId \in Ids(db.courses)
        /\ \A m \in db.messages : m.chatId \in Ids(db.chats)
        /\ \A ct \in db.citations : ct.messageId \in Ids(db.messages)

\* the rows of a store that belong to a course, and to a chat
DocumentsOfCourse(store, c) == {d.id : d \in {d \in store.documents : d.courseId = c}}
ChatsOfCourse(store, c) == {ch.id : ch \in {ch \in store.chats : ch.courseId = c}}
MessagesOfChats(store, chatIds) ==
    {m.id : m \in {m \in store.messages : m.chatId \in chatIds}}

NothingOfChatsRemains(chatIds) ==
    /\ Ids(db'.chats) \cap chatIds = {}
    /\ \A m \in db'.messages : m.chatId \notin chatIds
    /\ \A ct \in db'.citations : ct.messageId \notin MessagesOfChats(db, chatIds)

\* C17: a step that deletes a course leaves no document, VectorStore row,
\* chat, message or citation that belonged to it (citations of its documents
\* included); a step that deletes a chat leaves none of its messages or
\* their citations; and no row ever refers to a deleted parent, so nothing
\* of a deleted course or chat can turn up later.
C17_CascadeLeavesNothing ==
    /\ []ReferentialIntegrity
    /\ [][db.exists =>
            /\ \A c \in Ids(db.courses) \ Ids(db'.courses) :
                  /\ \A d \in db'.documents :
                        d.courseId # c /\ d.id \notin DocumentsOfCourse(db, c)
                  /\ \A v \in db'.vectors : v.documentId \notin DocumentsOfCourse(db, c)
                  /\ \A ct \in db'.citations : ct.documentId \notin DocumentsOfCourse(db, c)
                  /\ NothingOfChatsRemains(ChatsOfCourse(db, c))
            /\ NothingOfChatsRemains(Ids(db.chats) \ Ids(db'.chats))]_vars

\* u1 sent a message that was answered with a citation, then deleted the
\* course: the store holds no row of it
C17_Witness ==
    /\ db.exists
    /\ api.route = "DELETE /api/courses/[id]"
    /\ api.id = 1
    /\ api.status = 200
    /\ db.next = 14
    /\ db.citations = {}
    /\ db.messages = {}
    /\ db.vectors = {}
    /\ DocumentsOfCourse(db, 1) = {}


-----------------------------------------------------------------------------
(* Properties of cancelAllActiveRuns                                       *)

\* C18: when cancelAllActiveRuns returns, every thread that was tracked
\* when it was called has been visited, whatever failed on the threads
\* before it; on a thread whose runs were listed, cancel was called on the
\* run exactly when its listed status was in_progress or queued; and cancel
\* was called on no other thread.
C18_EveryTrackedThreadVisited ==
    assistant.pc = "returned" =>
        /\ \A threadId \in assistant.snapshot :
              /\ threadId \in assistant.visited
              /\ threadId \in assistant.cancelCalled
                    <=> assistant.listed[threadId] \in ActiveStatuses
        /\ assistant.cancelCalled \subseteq assistant.snapshot

\* the listing failed on the first thread visited, and the run of the thread
\* after it was still cancelled
C18_Witness ==
    /\ assistant.pc = "returned"
    /\ \E failed \in assistant.snapshot, later \in assistant.snapshot :
          /\ assistant.listed[failed] = "error"
          /\ failed \notin assistant.cancelCalled
          /\ later \in assistant.cancelCalled
          /\ assistant.status[later] = "cancelled"


-----------------------------------------------------------------------------
(* Properties of the run-status loop                                       *)

PollEnded == assistant.pc \in {"returned", "threw"}

\* C19: the loop is left exactly when the status read is completed or
\* failed (a failed lookup reads as failed) or 30 minutes have elapsed; the
\* call returns only with status completed, and then the trimmed
\* concatenation of the assistant messages' text parts; with any other
\* final status it throws; and every call ends.
C19_PollingTerminates ==
    /\ [](assistant.pc = "wait" =>
              /\ assistant.runStatus \notin {"completed", "failed"}
              /\ assistant.elapsed < MaxWaitTime)
    /\ [](assistant.pc = "done" =>
              \/ assistant.runStatus \in {"completed", "failed"}
              \/ assistant.elapsed >= MaxWaitTime)
    /\ [](assistant.pc = "returned" =>
              /\ assistant.runStatus = "completed"
              /\ assistant.result = TrimEnd(TrimStart(ExtractedText(assistant.messages)))
              /\ assistant.result # <<>>)
    /\ [](PollEnded /\ assistant.runStatus # "completed" => assistant.pc = "threw")
    /\ [](assistant.pc # "check" /\ ~assistant.retrieved => assistant.runStatus = "failed")
    /\ <>PollEnded

\* the run never got past in_progress: the loop gave up after 30 minutes
\* and the call threw
C19_Witness ==
    /\ assistant.pc = "threw"
    /\ assistant.runStatus = "in_progress"
    /\ assistant.elapsed >= MaxWaitTime


-----------------------------------------------------------------------------
(* Properties of extractText                                               *)

Extracted == call.pc = "returned" /\ "document" \in DOMAIN call
RealTexts == {LongText, PdfText}
ReturnsContentUntouched ==
    /\ call.text = call.document.content
    /\ ~call.downloaded
    /\ ~call.assistantCalled

-----------------------------------------------------------------------------
(* Properties of the citations of send-message                             *)

EndsWith(text, suffix) ==
    /\ Len(text) >= Len(suffix)
    /\ SubSeq(text, Len(text) - Len(suffix) + 1, Len(text)) = suffix

StartsWith(text, prefix) ==
    /\ Len(text) >= Len(prefix)
    /\ SubSeq(text, 1, Len(prefix)) = prefix

\* the chat route shows the notice in place of this chunk
Masked(chunk) == CleanContent(chunk) # chunk

\* the request asked for citations and its completion call succeeded
CitedAndCompleted(s) ==
    /\ sends[s].pc \in {"persist", "responded"}
    /\ sends[s].completion = "ok"
    /\ sends[s].options.enableCitations

\* one citation per retrieved chunk, in rank order, with the chunk's document
OneCitationPerChunk(s) ==
    /\ Len(sends[s].citations) = Len(sends[s].searchResults)
    /\ \A k \in 1..Len(sends[s].citations) :
          /\ sends[s].citations[k].documentId = sends[s].searchResults[k].documentId
          /\ StartsWith(sends[s].citations[k].sourceText,
                        <<"From \"">>
                        \o DocumentTitle(documents, sends[s].searchResults[k].documentId))

\* the persisted assistant message and the answer hold the citations collected
PersistedAsCollected(s) ==
    Responded(s) =>
        /\ sends[s].response.status = 200
        /\ sends[s].response.citations = sends[s].citations
        /\ messages[sends[s].response.id].role = "assistant"
        /\ messages[sends[s].response.id].citations = sends[s].citations

-----------------------------------------------------------------------------
(* Properties of the upload route                                          *)

IsUpload(r) == r.route = "POST /api/courses/[id]/upload"

\* the request reached the validation of its form: signed in, own course,
\* a body that parses
ReachedValidation(r) ==
    /\ IsUpload(r)
    /\ r.session # NoSession
    /\ OwnCourse(db, r.session, r.id)
    /\ r.form # Unparseable

Rejected(r) == IsUpload(r) /\ r.status >= 400

\* C22: an upload request without a file is answered 400 "No file provided",
\* one with a file but without a title (or a blank one) 400 "Document title is
\* required"; a rejected upload, whatever the reason, creates no Document row
\* and schedules no background processing.
C22_RejectedUploadCreatesNothing ==
    /\ [](ReachedValidation(api) =>
            /\ api.form.file = "none"
                  => api.status = 400 /\ api.error = NoFileProvided
            /\ api.form.file # "none" /\ api.form.title \in {"none", "blank"}
                  => api.status = 400 /\ api.error = TitleRequired)
    /\ [][Rejected(api') =>
            /\ db'.documents = db.documents
            /\ db'.tasks = db.tasks
            /\ db' = db]_vars

C22_Witness ==
    /\ ReachedValidation(api)
    /\ api.form.file = "none"
    /\ api.form.title = "none"
    /\ api.error = NoFileProvided
    /\ db.tasks = {}
    /\ db.documents = StockedStore(db.nodeEnv).documents

-----------------------------------------------------------------------------
(* Properties of delete-if-empty                                           *)

\* C23: delete-if-empty deletes a chat only when it has zero messages and
\* answers deleted: false, leaving the chat unchanged, when it has at least
\* one; a chat that holds a persisted message is never removed by it, also
\* while a send-message request on the same chat is in flight.
C23_NoChatWithMessagesRemoved ==
    [][ /\ chat.exists /\ ~chat'.exists => messages = <<>>
        /\ api.route = EmptyRoute /\ api.pc = "checked" /\ api.count > 0
              => /\ api'.pc = "responded" => ~api'.deleted
                 /\ chat' = chat
                 /\ Len(messages') >= Len(messages) ]_vars

-----------------------------------------------------------------------------
(* Frame properties of the VectorStore table                               *)

\* the step appends one row, written by a processing run for its document
\* and the chunk it is at, and leaves every row before it as it was
RowAddedByRun ==
    \E r \in RunIds :
        /\ Live(r) /\ runs[r].pc = "embed"
        /\ runs'[r].outcomes = Append(runs[r].outcomes, TRUE)
        /\ Len(vectorStore') = Len(vectorStore) + 1
        /\ SubSeq(vectorStore', 1, Len(vectorStore)) = vectorStore
        /\ vectorStore'[Len(vectorStore')].documentId = runs[r].document.id
        /\ vectorStore'[Len(vectorStore')].chunk = runs[r].chunks[Len(runs[r].outcomes) + 1]

\* the step removes exactly the rows of one document, which the delete route
\* is deleting or has deleted, and leaves the other rows as they were
RowsRemovedWithDocument ==
    \E id \in DocIds :
        /\ Exists(documents, id)
        /\ id \in deleting' \/ ~Exists(documents', id)
        /\ vectorStore' = SelectSeq(vectorStore, LAMBDA v : v.documentId # id)

\* C24: VectorStore rows are write-once: no step changes the chunk or the
\* embedding of an existing row; a row is only added by a processing run and
\* rows are only removed by the deletion of their document.
C24_RowsAreWriteOnce ==
    [][vectorStore' # vectorStore => RowAddedByRun \/ RowsRemovedWithDocument]_vars

C24_Witness ==
    \E r \in RunIds :
        /\ Live(r)
        /\ \E k \in 1..Len(runs[r].outcomes) : runs[r].outcomes[k]
        /\ runs[r].document.id \in deleting
        /\ vectorStore = <<>>

-----------------------------------------------------------------------------
(* Placeholder and error strings in the VectorStore table                  *)

\* text the routes and extractText write themselves: the upload placeholder,
\* a PROCESSING ERROR marker, an extraction error marker
SystemWritten(chunk) ==
    \/ Includes(chunk, <<"PDF content being processed with OpenAI Assistant API">>)
    \/ Includes(chunk, <<"PROCESSING">>)
    \/ Includes(chunk, <<"Error", " processing PDF">>)

\* C25: no VectorStore row ever holds a chunk taken from a system-written
\* placeholder or error string, after any sequence of create, upload, process
\* and delete operations.
C25_NoSystemTextInRows ==
    \A k \in 1..Len(vectorStore) : ~SystemWritten(vectorStore[k].chunk)

-----------------------------------------------------------------------------
(* Properties of POST /api/documents/[id]/process                          *)

ProcessRun(id) == <<id, "process">>

\* C26: whenever POST /api/documents/{id}/process answers processed: true
\* (processDocument returned, or the document was found processed), the
\* stored document has processed = true; and for a document found processed
\* the request starts no processDocument run and adds no VectorStore row.
C26_ProcessedAnswerIsTrue ==
    [][\A id \in DocIds :
          /\ runs[ProcessRun(id)] # NoRun /\ runs[ProcessRun(id)].pc = "returned"
             /\ runs'[ProcessRun(id)] = NoRun
                => Exists(documents, id) /\ documents[id].processed
          /\ runs[ProcessRun(id)] = NoRun /\ runs'[ProcessRun(id)] # NoRun
                => ~documents[id].processed /\ vectorStore' = vectorStore]_vars

-----------------------------------------------------------------------------
(* Properties of the activeThreads map                                     *)

InFlight(c) == assistant.calls[c] # NoPdfCall /\ assistant.calls[c].pc = "running"

\* C27: activeThreads holds an entry for a document only while a run for the
\* document is in flight: once the calls for it have returned or thrown the
\* map has no entry for it, and every thread in flight is the one its
\* document's entry names, also while two runs for one document overlap.
C27_EntriesAreRunsInFlight ==
    /\ \A d \in DocIds :
          assistant.activeThreads[d] # Untracked
          => \E c \in Threads : InFlight(c) /\ assistant.calls[c].documentId = d
    /\ \A c \in Threads :
          InFlight(c) => assistant.activeThreads[assistant.calls[c].documentId] = c

-----------------------------------------------------------------------------
(* The apology and the prompt of send-message                              *)

\* C28: an assistant message whose content is the apologetic error text is
\* persisted and returned with no citations, whatever the semantic search had
\* retrieved before the failure.
C28_ApologyHasNoCitations ==
    \A s \in SendIds :
        /\ sends[s].pc \in {"persist", "responded"}
        /\ sends[s].assistantContent = Apology
        => /\ sends[s].citations = <<>>
           /\ Responded(s) /\ sends[s].response.status = 200 =>
                /\ sends[s].response.citations = <<>>
                /\ messages[sends[s].response.id].citations = <<>>

\* C29: the message list sent to the chat-completion API holds the current
\* user message exactly once: as its last element, after the system message
\* and the earlier history, and not among the history, for a chat of any length.
C29_CurrentMessageOnce ==
    \A s \in SendIds :
        sends[s].pc \in {"complete", "persist", "responded"} /\ sends[s].formattedMessages # <<>>
        => LET sent == sends[s].formattedMessages
           IN  /\ sent[1].role = "system"
               /\ sent[Len(sent)] = [role |-> "user", content |-> sends[s].message]
               /\ Len(sent) = Len(sends[s].chatHistory) + 2
               /\ \A k \in 1..Len(sends[s].chatHistory) :
                     sends[s].chatHistory[k].id # sends[s].userMessageId

-----------------------------------------------------------------------------
(* Properties of chat creation                                             *)

\* every request received so far asked for a general chat without forceNew
NoneForcedNew == \A q \in CreationIds : api[q] # NoCreation => ~api[q].body.forceNew

\* C30: starting from a user and course with no general chat, any
\* interleaving of create-chat requests of type general with forceNew = false
\* leaves at most one general chat: each request returns the existing general
\* chat or creates the only one.
C30_AtMostOneGeneralChat ==
    NoneForcedNew =>
        /\ Cardinality(ExistingGeneral(db.chats)) <= 1
        /\ \A q \in CreationIds :
              api[q] # NoCreation /\ api[q].pc = "responded" /\ api[q].status = 200
              => ExistingGeneral(db.chats) = {ch \in db.chats : ch.id = api[q].chat}

====
